---- MODULE Spec2Model ----
(***************************************************************************)
(* Model of the quality-control engine of the iniamet library              *)
(* (src/src/iniamet/qc.py).                                                *)
(*                                                                         *)
(* A pandas DataFrame is a record [cols, rows]: cols is the set of column  *)
(* names and rows a sequence of functions from cols to cell values.  A     *)
(* numeric cell is a float, modelled as an exact rational or one of the    *)
(* IEEE specials NaN, +inf, -inf; a flag cell is a BOOLEAN; a timestamp    *)
(* cell is a number of seconds since an arbitrary origin.  Variable names  *)
(* are sequences of characters so that lower(), strip() and the substring  *)
(* tests of _normalize_variable_name are computed, not assumed.            *)
(***************************************************************************)
EXTENDS Integers, Sequences, FiniteSets, TLC

VARIABLES
    df,             \* the caller's table, the argument of the call
    variable_name,  \* the caller's variable_name (or variable id) argument
    call,           \* the call made: its name and its other arguments
    result,         \* what the call returned, or the error it raised
    cache_file,     \* the parquet file of the station/variable, or Missing
    saved,          \* history: the time span and the rows of each table written
                    \* since the cache was last cleared
    upstream,       \* the readings the API holds for the station/variable
    attempt,        \* the loop variable of APIClient._request
    http,           \* history: the outcomes of the HTTP requests issued
    qc_flags,       \* QualityControl.qc_flags, the list __init__ creates
    compensated     \* the installed pandas adds the cells of a group with
                    \* Kahan compensation (from 1.3 on) or plainly (before);
                    \* the repository pins no version

\* The state no check takes as an argument: the cache, the API, the request
\* in progress and the list held by the QualityControl object.
ioVars == <<cache_file, saved, upstream, attempt, http, qc_flags, compensated>>

vars == <<df, variable_name, call, result, ioVars>>

-----------------------------------------------------------------------------
(* Floats.  A float64 cell is NaN, +-inf, or a finite double written in    *)
(* one of two ways: "num" n/d (d > 0) stands for the double nearest to the *)
(* rational n/d (a literal, an input, or the correctly rounded result of   *)
(* an operation on exact operands); "dbl" stands for the double            *)
(* n * m * 2^e exactly, m being a natural of any size.  Arithmetic is      *)
(* exact where the operands and the result are representable, and rounds   *)
(* to nearest, ties to even, at 53 bits otherwise.                         *)

Num(n) == [k |-> "num", n |-> n, d |-> 1]
Rat(n, d) == [k |-> "num", n |-> n, d |-> d]
NaN == [k |-> "nan", n |-> 0, d |-> 1]
PInf == [k |-> "inf", n |-> 1, d |-> 1]
NInf == [k |-> "inf", n |-> -1, d |-> 1]

IsNaN(a) == a.k = "nan"
IsNum(a) == a.k = "num"
IsFinite(a) == a.k \in {"num", "dbl"}

Sign(i) == IF i > 0 THEN 1 ELSE IF i < 0 THEN -1 ELSE 0
AbsInt(i) == IF i < 0 THEN -i ELSE i

RECURSIVE Gcd(_, _)
Gcd(a, b) == IF b = 0 THEN a ELSE Gcd(b, a % b)

RECURSIVE IsPow2(_)
IsPow2(d) == IF d % 256 = 0 THEN IsPow2(d \div 256) ELSE d \in {1, 2, 4, 8, 16, 32, 64, 128}

RECURSIVE Pow2(_)
Pow2(e) == IF e = 0 THEN 1 ELSE 2 * Pow2(e - 1)

\* The rational n/d is itself a double: in lowest terms its denominator is a
\* power of two (the numerators of the model are below 2^31 < 2^53).
IsExact(a) == a.k = "num" /\ (a.d = 1 \/ IsPow2(a.d \div Gcd(AbsInt(a.n), a.d)))

\* The significand width of float64.
MantissaBits == 53

\* The integers of the model are of 32 bits: x * y (twice over) stays below 2^31.
MaxInt == 2147483647
MulFits(x, y) == y = 0 \/ AbsInt(x) <= MaxInt \div AbsInt(y)
SumFits(x, y) == y = 0 \/ AbsInt(x) <= (MaxInt \div 2) \div AbsInt(y)

\* Naturals of any size: the sequence of their digits in base 2^15, least
\* significant first, with no zero at the most significant end.
LimbBits == 15
Base == 32768

LTrim(a) ==
    SubSeq(a, 1, CHOOSE k \in 0..Len(a) :
                    (k = 0 \/ a[k] # 0) /\ \A j \in (k + 1)..Len(a) : a[j] = 0)

RECURSIVE LFromInt(_)
LFromInt(n) == IF n = 0 THEN <<>> ELSE <<n % Base>> \o LFromInt(n \div Base)

\* for a below 2^30
LToInt(a) == IF Len(a) = 0 THEN 0 ELSE IF Len(a) = 1 THEN a[1] ELSE a[1] + Base * a[2]

Limb(a, i) == IF i <= Len(a) THEN a[i] ELSE 0

RECURSIVE LAddFrom(_, _, _, _)
LAddFrom(a, b, i, carry) ==
    IF i > Len(a) /\ i > Len(b) THEN (IF carry = 0 THEN <<>> ELSE <<carry>>)
    ELSE LET t == Limb(a, i) + Limb(b, i) + carry
         IN <<t % Base>> \o LAddFrom(a, b, i + 1, t \div Base)

LAdd(a, b) == LAddFrom(a, b, 1, 0)

\* a - b for a >= b
RECURSIVE LSubFrom(_, _, _, _)
LSubFrom(a, b, i, borrow) ==
    IF i > Len(a) THEN <<>>
    ELSE LET t == Limb(a, i) - Limb(b, i) - borrow
         IN <<(t + Base) % Base>> \o LSubFrom(a, b, i + 1, IF t < 0 THEN 1 ELSE 0)

LSub(a, b) == LTrim(LSubFrom(a, b, 1, 0))

\* -1, 0 or 1 as p < q, p = q or p > q
Order(p, q) == IF p < q THEN -1 ELSE IF p = q THEN 0 ELSE 1

\* The highest digit where a and b, of the same length, differ; 0 if none.
TopDiff(a, b) ==
    CHOOSE k \in 0..Len(a) : (k = 0 \/ a[k] # b[k]) /\ \A j \in (k + 1)..Len(a) : a[j] = b[j]

LCmpAt(a, b, k) == IF k = 0 THEN 0 ELSE Order(a[k], b[k])

\* -1, 0 or 1 as a < b, a = b or a > b
LCmp(a, b) == IF Len(a) # Len(b) THEN Order(Len(a), Len(b)) ELSE LCmpAt(a, b, TopDiff(a, b))

\* a * c for 0 <= c < 2^15
RECURSIVE LMulSmallFrom(_, _, _, _)
LMulSmallFrom(a, c, i, carry) ==
    IF i > Len(a) THEN (IF carry = 0 THEN <<>> ELSE <<carry>>)
    ELSE LET t == a[i] * c + carry
         IN <<t % Base>> \o LMulSmallFrom(a, c, i + 1, t \div Base)

LMulSmall(a, c) == IF c = 0 THEN <<>> ELSE LMulSmallFrom(a, c, 1, 0)

\* a * 2^k
LShl(a, k) ==
    IF Len(a) = 0 THEN a
    ELSE [i \in 1..(k \div LimbBits) |-> 0] \o LMulSmall(a, Pow2(k % LimbBits))

\* a without its lowest `drop` digits, then \div s for a power of two s < 2^15
LShrBy(a, drop, s) ==
    LTrim([i \in 1..(Len(a) - drop) |->
              (a[i + drop] \div s) + (Limb(a, i + drop + 1) % s) * (Base \div s)])

\* a \div 2^k
LShr(a, k) == LShrBy(a, k \div LimbBits, Pow2(k % LimbBits))

\* a % 2^k # 0
LLowNonZero(a, k) ==
    \/ \E i \in 1..(k \div LimbBits) : Limb(a, i) # 0
    \/ Limb(a, (k \div LimbBits) + 1) % Pow2(k % LimbBits) # 0

\* bit i (from 1, the least significant) of a
LBit(a, i) == (Limb(a, ((i - 1) \div LimbBits) + 1) \div Pow2((i - 1) % LimbBits)) % 2

\* the number of bits of a
LBitLen(a) ==
    IF Len(a) = 0 THEN 0
    ELSE LimbBits * (Len(a) - 1)
         + (CHOOSE k \in 1..LimbBits :
               a[Len(a)] < Pow2(k) /\ \A j \in 1..(k - 1) : a[Len(a)] >= Pow2(j))

RECURSIVE LMul(_, _)
LMul(a, b) ==
    IF Len(a) = 0 \/ Len(b) = 0 THEN <<>>
    ELSE LAdd(LMulSmall(a, b[1]), LShl(LMul(a, Tail(b)), LimbBits))

SetMax(S) == CHOOSE m \in S : \A x \in S : x <= m

\* The element of a one-element set: the value of an expression, computed
\* before it is used.
Only(S) == CHOOSE v \in S : TRUE
Max0(g) == IF g > 0 THEN g ELSE 0
Clip(g) == IF g < Base THEN g ELSE Base - 1

\* Long division of N by D (whose top digit is at least 2^14), from digit i
\* of N down, with the remainder R < D so far: the remainder, then the
\* digits of the quotient, least significant first.  The digit of the
\* quotient is estimated from the two top digits of the dividend X and is at
\* most 2 above: it is the largest c with c * D <= X.
RECURSIVE LDivFrom(_, _, _, _)

Digit(D, X, hat) ==
    SetMax({c \in {0, hat - 2, hat - 1, hat} : c >= 0 /\ LCmp(LMulSmall(D, c), X) <= 0})

LDivDigit(D, X, digit) == [digit |-> digit, r |-> LSub(X, LMulSmall(D, digit))]

LDivStep(D, X) ==
    LDivDigit(D, X, Digit(D, X, Clip((Limb(X, Len(D) + 1) * Base + Limb(X, Len(D)))
                                        \div D[Len(D)])))

LDivFrom(N, D, i, R) ==
    IF i = 0 THEN <<R>>
    ELSE CHOOSE v \in {LDivFrom(N, D, i - 1, st.r) \o <<st.digit>> :
                          st \in {LDivStep(D, LTrim(<<N[i]>> \o R))}} : TRUE

\* The binary numbers s * m * 2^e (s the sign, m a natural in digits).
Dyadic(s, m, e) == [s |-> s, m |-> m, e |-> e]
DZero == Dyadic(0, <<>>, 0)
DNeg(x) == Dyadic(-x.s, x.m, x.e)

\* The number of zero bits at the low end of m # 0.
TrailingZeros(m) ==
    CHOOSE k \in 0..(LimbBits * Len(m)) : LBit(m, k + 1) = 1 /\ \A j \in 1..k : LBit(m, j) = 0

CanonBy(x, tz) == Dyadic(x.s, LShr(x.m, tz), x.e + tz)

\* The same number with an odd m.
Canon(x) == IF x.s = 0 \/ Len(x.m) = 0 THEN DZero ELSE CanonBy(x, TrailingZeros(x.m))

\* Round to nearest, ties to even: m loses its k low bits and `keep` is what
\* stays; sticky says that the number to round is above x by less than 2^e.
RoundUp(m, k, keep, sticky) ==
    LBit(m, k) = 1 /\ (sticky \/ LLowNonZero(m, k - 1) \/ LBit(keep, 1) = 1)

Round53Keep(x, k, keep, sticky) ==
    Dyadic(x.s, IF RoundUp(x.m, k, keep, sticky) THEN LAdd(keep, <<1>>) ELSE keep, x.e + k)

Round53At(x, sticky, k) == IF k <= 0 THEN x ELSE Round53Keep(x, k, LShr(x.m, k), sticky)

\* The double nearest to x.
Round53(x, sticky) == Canon(Round53At(x, sticky, LBitLen(x.m) - MantissaBits))

\* A result that needs no sticky bit.
Exactly(x) == [x |-> x, sticky |-> FALSE]

\* x + y, not rounded: a and b are the digits of x and y at the exponent e,
\* and c orders them.
DSumSigned(x, y, a, b, e, c) ==
    IF x.s = y.s THEN Dyadic(x.s, LAdd(a, b), e)
    ELSE IF c = 0 THEN DZero
    ELSE Dyadic(IF c > 0 THEN x.s ELSE y.s,
                LSub(IF c > 0 THEN a ELSE b, IF c > 0 THEN b ELSE a), e)

DSumDigits(x, y, a, b, e) == DSumSigned(x, y, a, b, e, LCmp(a, b))

DSumAt(x, y, e) == DSumDigits(x, y, LShl(x.m, x.e - e), LShl(y.m, y.e - e), e)

DSum(x, y) ==
    IF x.s = 0 THEN y
    ELSE IF y.s = 0 THEN x
    ELSE DSumAt(x, y, IF x.e < y.e THEN x.e ELSE y.e)

\* x * y, not rounded.
DMul(x, y) == Dyadic(x.s * y.s, LMul(x.m, y.m), x.e + y.e)

\* x / y for y # 0, not rounded: the quotient to at least 55 bits, and
\* whether the division left a remainder.  D is y.m shifted by kd to have a
\* top digit of at least 2^14, N is x.m shifted by kn.
DQuotient(s, qr, e) == [x |-> Dyadic(s, LTrim(Tail(qr)), e), sticky |-> Len(qr[1]) > 0]

\* The top Len(D) - 1 digits of N are below D and give no digit of the
\* quotient.
DDivDigits(x, y, D, N, e) ==
    DQuotient(x.s * y.s,
              LDivFrom(N, D, Len(N) - Len(D) + 1, SubSeq(N, Len(N) - Len(D) + 2, Len(N))), e)

DDivBy(x, y, kd, D, kn) == DDivDigits(x, y, D, LShl(x.m, kn), x.e - y.e + kd - kn)

DDivScaled(x, y, kd, D) ==
    DDivBy(x, y, kd, D, Max0(LBitLen(D) + MantissaBits + 3 - LBitLen(x.m)))

DDivNorm(x, y, kd) == DDivScaled(x, y, kd, LShl(y.m, kd))

DDiv(x, y) ==
    IF x.s = 0 THEN Exactly(DZero)
    ELSE DDivNorm(x, y, (LimbBits - (LBitLen(y.m) % LimbBits)) % LimbBits)

\* Float expressions: a double, or one operation on two expressions, whose
\* result is rounded as every float64 operation rounds.
Val(x) == [op |-> "val", x |-> x, y |-> x]
Bin(op, s, t) == [op |-> op, x |-> s, y |-> t]

DRaw(op, x, y) ==
    IF op \in {"add", "sub"} THEN Exactly(DSum(x, IF op = "sub" THEN DNeg(y) ELSE y))
    ELSE IF op = "mul" THEN Exactly(DMul(x, y))
    ELSE DDiv(x, y)

DRound(raw) == Round53(raw.x, raw.sticky)

\* The operation on the operands x and y, then its rounding.
DApply(op, x, y) == Only({DRound(raw) : raw \in {DRaw(op, x, y)}})

RECURSIVE DEval(_)
DEval(t) ==
    IF t.op = "val" THEN t.x
    ELSE Only({DApply(t.op, x, y) : x \in {DEval(t.x)}, y \in {DEval(t.y)}})

\* float(n/d): the double nearest to the rational.
Whole(n) == Val(Dyadic(Sign(n), LFromInt(AbsInt(n)), 0))
FromRat(n, d) == Bin("div", Whole(n), Whole(d))

Term(a) == IF a.k = "dbl" THEN Val(Dyadic(a.n, a.m, a.e)) ELSE FromRat(a.n, a.d)

ToDyadic(a) == DEval(Term(a))

\* A double as a cell: "num" when its numerator and denominator are below 2^30.
Small(n, e) == IF e >= 0 THEN Num(n * Pow2(e)) ELSE Rat(n, Pow2(-e))

FromDyadic(x) ==
    IF x.s = 0 THEN Num(0)
    ELSE IF LBitLen(x.m) + Max0(x.e) <= 2 * LimbBits /\ -x.e <= 2 * LimbBits
         THEN Small(x.s * LToInt(x.m), x.e)
    ELSE [k |-> "dbl", n |-> x.s, d |-> 1, m |-> x.m, e |-> x.e]

\* One float64 operation on two finite cells.
FBin(op, a, b) == FromDyadic(DEval(Bin(op, Term(a), Term(b))))

\* -1, 0 or 1 as a < b, a = b or a > b, for cells other than NaN (the sign
\* of a difference survives its rounding).
FCmp(a, b) ==
    IF a.k = "inf" \/ b.k = "inf"
        THEN Order(IF a.k = "inf" THEN a.n ELSE 0, IF b.k = "inf" THEN b.n ELSE 0)
    ELSE IF IsNum(a) /\ IsNum(b) /\ MulFits(a.n, b.d) /\ MulFits(b.n, a.d)
        THEN Order(a.n * b.d, b.n * a.d)
    ELSE DEval(Bin("sub", Term(a), Term(b))).s

\* IEEE comparison: anything compared with NaN is False.
FLt(a, b) == ~IsNaN(a) /\ ~IsNaN(b) /\ FCmp(a, b) < 0
FGt(a, b) == FLt(b, a)
FEq(a, b) == ~IsNaN(a) /\ ~IsNaN(b) /\ FCmp(a, b) = 0
FLe(a, b) == ~IsNaN(a) /\ ~IsNaN(b) /\ FCmp(a, b) <= 0

\* The operands are doubles and the rational computed from them fits.
ExactPair(a, b) ==
    /\ IsExact(a) /\ IsExact(b)
    /\ SumFits(a.n, b.d) /\ SumFits(b.n, a.d) /\ MulFits(a.d, b.d)

\* Arithmetic on finite operands (NaN propagates); the tables never hold inf.
FSub(a, b) ==
    IF ~IsFinite(a) \/ ~IsFinite(b) THEN NaN
    ELSE IF ExactPair(a, b) THEN Rat(a.n * b.d - b.n * a.d, a.d * b.d)
    ELSE FBin("sub", a, b)

FAdd(a, b) ==
    IF ~IsFinite(a) \/ ~IsFinite(b) THEN NaN
    ELSE IF ExactPair(a, b) THEN Rat(a.n * b.d + b.n * a.d, a.d * b.d)
    ELSE FBin("add", a, b)

\* c * a for an integer c
FScale(c, a) ==
    IF ~IsFinite(a) THEN a
    ELSE IF IsExact(a) /\ MulFits(c, a.n) THEN Rat(c * a.n, a.d)
    ELSE FBin("mul", Num(c), a)

FAbs(a) ==
    IF IsNaN(a) THEN NaN
    ELSE IF a.k = "inf" THEN PInf
    ELSE IF a.k = "dbl" THEN [a EXCEPT !.n = 1]
    ELSE Rat(AbsInt(a.n), a.d)

FIsZero(a) == a.k = "num" /\ a.n = 0

\* numpy float division: x/0 is +-inf for x # 0 and NaN for 0/0.
FDiv(a, b) ==
    IF ~IsFinite(a) \/ ~IsFinite(b) THEN NaN
    ELSE IF FIsZero(b) THEN (IF FIsZero(a) THEN NaN
                             ELSE IF a.n > 0 THEN PInf ELSE NInf)
    ELSE IF IsExact(a) /\ IsExact(b) /\ MulFits(a.n, b.d) /\ MulFits(a.d, b.n)
         THEN Rat(a.n * b.d * Sign(b.n), a.d * AbsInt(b.n))
    ELSE FBin("div", a, b)

-----------------------------------------------------------------------------
(* Series (columns) and tables.                                            *)

Col(t, c) == [i \in 1..Len(t.rows) |-> t.rows[i][c]]

\* df[c] = s : assign (add or overwrite) column c.
SetCol(t, c, s) ==
    [cols |-> t.cols \cup {c},
     rows |-> [i \in 1..Len(t.rows) |->
                 [x \in t.cols \cup {c} |-> IF x = c THEN s[i] ELSE t.rows[i][x]]]]

\* Mutant: assigning a scalar column resets the flag columns attached so far.
SetColConstResetting(t, c, v) ==
    [cols |-> t.cols \cup {c},
     rows |-> [i \in 1..Len(t.rows) |->
                 [x \in t.cols \cup {c} |->
                     IF x = c THEN v
                     ELSE IF x \in {"tiempo", "valor"} THEN t.rows[i][x]
                     ELSE FALSE]]]

\* df[c] = scalar
SetColConst(t, c, v) == SetCol(t, c, [i \in 1..Len(t.rows) |-> v])

\* Mutant: the first difference is filled with 0 instead of NaN.
DiffZeroFirst(s) == [i \in 1..Len(s) |-> IF i = 1 THEN Num(0) ELSE FSub(s[i], s[i-1])]

\* Series.diff(): first element NaN, then s[i] - s[i-1].
Diff(s) == [i \in 1..Len(s) |-> IF i = 1 THEN NaN ELSE FSub(s[i], s[i-1])]

\* Mutant: the differences keep their sign.
AbsSSigned(s) == s

\* Series.abs()
AbsS(s) == [i \in 1..Len(s) |-> FAbs(s[i])]

\* Boolean Series.sum(): the number of True cells.
RECURSIVE CountTrue(_)
CountTrue(s) ==
    IF Len(s) = 0 THEN 0
    ELSE (IF s[Len(s)] THEN 1 ELSE 0) + CountTrue(SubSeq(s, 1, Len(s) - 1))

Ok(t) == [status |-> "ok", df |-> t]
KeyError == [status |-> "KeyError"]
NoResult == [status |-> "none"]
NoCall == [op |-> "none"]

\* No cache file, nothing saved, no upstream data, no request under way and
\* the list of the QualityControl object as __init__ leaves it.
Missing == [status |-> "missing"]
\* The directory of the data files is gone, and no file can be written.
NoDirectory == [status |-> "no directory"]
Offline ==
    /\ cache_file = Missing
    /\ saved = <<>>
    /\ upstream = <<>>
    /\ attempt = 0
    /\ http = <<>>
    /\ qc_flags = <<>>
    /\ compensated \in BOOLEAN

-----------------------------------------------------------------------------
(* Strings as character sequences.                                         *)

K_temperatura == <<"t", "e", "m", "p", "e", "r", "a", "t", "u", "r", "a">>
K_temperatura_aire == <<"t", "e", "m", "p", "e", "r", "a", "t", "u", "r", "a", "_", "a", "i", "r", "e">>
K_temp == <<"t", "e", "m", "p">>
K_humedad == <<"h", "u", "m", "e", "d", "a", "d">>
K_humedad_relativa == <<"h", "u", "m", "e", "d", "a", "d", "_", "r", "e", "l", "a", "t", "i", "v", "a">>
K_precipitacion == <<"p", "r", "e", "c", "i", "p", "i", "t", "a", "c", "i", "o", "n">>
K_lluvia == <<"l", "l", "u", "v", "i", "a">>
K_viento == <<"v", "i", "e", "n", "t", "o">>
K_velocidad_viento == <<"v", "e", "l", "o", "c", "i", "d", "a", "d", "_", "v", "i", "e", "n", "t", "o">>
K_radiacion == <<"r", "a", "d", "i", "a", "c", "i", "o", "n">>
K_radiacion_solar == <<"r", "a", "d", "i", "a", "c", "i", "o", "n", "_", "s", "o", "l", "a", "r">>
K_presion == <<"p", "r", "e", "s", "i", "o", "n">>
K_presion_atmosferica == <<"p", "r", "e", "s", "i", "o", "n", "_", "a", "t", "m", "o", "s", "f", "e", "r", "i", "c", "a">>
K_hum == <<"h", "u", "m">>
K_prec == <<"p", "r", "e", "c">>
K_lluv == <<"l", "l", "u", "v">>
K_vient == <<"v", "i", "e", "n", "t">>
K_radia == <<"r", "a", "d", "i", "a">>

\* The characters are those of Latin-1 (U+0000..U+00FF).  str.lower() maps the
\* capital at each position of UpperCase to the letter at that position of
\* LowerCase and keeps every other character.
UpperCase == <<"A", "B", "C", "D", "E", "F", "G", "H", "I", "J", "K", "L", "M", "N", "O", "P", "Q", "R", "S", "T", "U", "V", "W", "X", "Y", "Z",
               "À", "Á", "Â", "Ã", "Ä", "Å", "Æ", "Ç", "È", "É", "Ê", "Ë", "Ì", "Í", "Î", "Ï", "Ð", "Ñ", "Ò", "Ó", "Ô", "Õ", "Ö", "Ø", "Ù", "Ú", "Û", "Ü", "Ý", "Þ">>
LowerCase == <<"a", "b", "c", "d", "e", "f", "g", "h", "i", "j", "k", "l", "m", "n", "o", "p", "q", "r", "s", "t", "u", "v", "w", "x", "y", "z",
               "à", "á", "â", "ã", "ä", "å", "æ", "ç", "è", "é", "ê", "ë", "ì", "í", "î", "ï", "ð", "ñ", "ò", "ó", "ô", "õ", "ö", "ø", "ù", "ú", "û", "ü", "ý", "þ">>
\* str.isspace(): tab, line feed, vertical tab, form feed, carriage return,
\* U+001C..U+001F, space, U+0085 and the no-break space U+00A0.
Whitespace == {"\t", "\n", "", "\f", "\r", "", "", "", "", " ", "", " "}

\* str.lower()
LowerChar(c) ==
    IF \E i \in 1..Len(UpperCase) : UpperCase[i] = c
    THEN LowerCase[CHOOSE i \in 1..Len(UpperCase) : UpperCase[i] = c]
    ELSE c

StrLower(s) == [i \in 1..Len(s) |-> LowerChar(s[i])]

\* str.strip(): drop the leading and the trailing whitespace.
StrStrip(s) ==
    LET keep == {i \in 1..Len(s) : s[i] \notin Whitespace} IN
    IF keep = {} THEN <<>>
    ELSE LET lo == CHOOSE i \in keep : \A j \in keep : i <= j
             hi == CHOOSE i \in keep : \A j \in keep : j <= i
         IN SubSeq(s, lo, hi)

\* sub in s
StrContains(s, sub) ==
    \E i \in 1..(Len(s) - Len(sub) + 1) : SubSeq(s, i, i + Len(sub) - 1) = sub

\* QualityControl._normalize_variable_name
NormalizeVariableName(name0) ==
    LET name == StrStrip(StrLower(name0)) IN
    IF StrContains(name, K_temp) THEN K_temperatura
    ELSE IF StrContains(name, K_hum) THEN K_humedad
    ELSE IF StrContains(name, K_prec) \/ StrContains(name, K_lluv) THEN K_precipitacion
    ELSE IF StrContains(name, K_vient) THEN K_viento
    ELSE IF StrContains(name, K_radia) THEN K_radiacion
    ELSE IF StrContains(name, K_presion) THEN K_presion
    ELSE name

-----------------------------------------------------------------------------
(* The range tables.                                                       *)

Range(lo, hi) == [min |-> Num(lo), max |-> Num(hi)]
Unbounded == [min |-> NInf, max |-> PInf]

PHYSICAL_RANGES ==
    (K_temperatura :> Range(-50, 60)) @@
    (K_temperatura_aire :> Range(-50, 60)) @@
    (K_temp :> Range(-50, 60)) @@
    (K_humedad :> Range(0, 100)) @@
    (K_humedad_relativa :> Range(0, 100)) @@
    (K_precipitacion :> Range(0, 500)) @@
    (K_lluvia :> Range(0, 500)) @@
    (K_viento :> Range(0, 100)) @@
    (K_velocidad_viento :> Range(0, 100)) @@
    (K_radiacion :> Range(0, 1500)) @@
    (K_radiacion_solar :> Range(0, 1500)) @@
    (K_presion :> Range(800, 1100)) @@
    (K_presion_atmosferica :> Range(800, 1100))

\* Mutant: the expected maximum of temperatura lies beyond the physical one.
EXPECTED_RANGES_temperatura_wide ==
    (K_temperatura :> Range(-10, 1000)) @@
    (K_temperatura_aire :> Range(-10, 40)) @@
    (K_humedad :> Range(5, 100)) @@
    (K_humedad_relativa :> Range(5, 100)) @@
    (K_precipitacion :> Range(0, 200)) @@
    (K_viento :> Range(0, 50)) @@
    (K_radiacion :> Range(0, 1200))

EXPECTED_RANGES ==
    (K_temperatura :> Range(-10, 40)) @@
    (K_temperatura_aire :> Range(-10, 40)) @@
    (K_humedad :> Range(5, 100)) @@
    (K_humedad_relativa :> Range(5, 100)) @@
    (K_precipitacion :> Range(0, 200)) @@
    (K_viento :> Range(0, 50)) @@
    (K_radiacion :> Range(0, 1200))

\* dict.get(key, default)
DictGet(dict, key, default) == IF key \in DOMAIN dict THEN dict[key] ELSE default

\* Mutant: the limits themselves count as outside (<= and >=).
OutsideRangeInclusive(s, lo, hi) == [i \in 1..Len(s) |-> FLe(s[i], lo) \/ FLe(hi, s[i])]

\* Mutant: outside is whatever is not within the limits, a missing value too.
OutsideRangeNotWithin(s, lo, hi) ==
    [i \in 1..Len(s) |-> ~(FLe(lo, s[i]) /\ FLe(s[i], hi))]

\* (s < lo) | (s > hi), elementwise
OutsideRange(s, lo, hi) == [i \in 1..Len(s) |-> FLt(s[i], lo) \/ FGt(s[i], hi)]

-----------------------------------------------------------------------------
(* The checks.  Each takes the table and the arguments of the Python       *)
(* method and yields Ok(table) or the exception raised.                    *)

\* QualityControl.detect_impossible_values
detect_impossible_values(t, name, value_col) ==
    LET ranges == DictGet(PHYSICAL_RANGES, NormalizeVariableName(name), Unbounded) IN
    IF value_col \notin t.cols THEN KeyError
    ELSE Ok(SetCol(t, "qc_impossible", OutsideRange(Col(t, value_col), ranges.min, ranges.max)))

\* Series.dropna() followed by a sort (ascending), as quantile and median do.
RECURSIVE InsertSorted(_, _)
InsertSorted(s, x) ==
    IF Len(s) = 0 THEN <<x>>
    ELSE IF FLe(x, s[1]) THEN <<x>> \o s
    ELSE <<s[1]>> \o InsertSorted(Tail(s), x)

RECURSIVE SortedValid(_)
SortedValid(s) ==
    IF Len(s) = 0 THEN <<>>
    ELSE IF IsNaN(s[Len(s)]) THEN SortedValid(SubSeq(s, 1, Len(s) - 1))
    ELSE InsertSorted(SortedValid(SubSeq(s, 1, Len(s) - 1)), s[Len(s)])

\* numpy's _lerp(a, b, t) for t = r/4: a + (b - a) * t below one half,
\* b - (b - a) * (1 - t) from one half on.
LerpFrom(base, q, diff) == FAdd(base, FDiv(FScale(q, diff), Num(4)))

Lerp(a, b, r) ==
    LerpFrom(IF 2 * r < 4 THEN a ELSE b, IF 2 * r < 4 THEN r ELSE r - 4, FSub(b, a))

\* The quantile at the virtual index h/4 (from 0) of the sorted values x.
QuantileAt(x, h) ==
    IF h % 4 = 0 THEN x[(h \div 4) + 1]
    ELSE Lerp(x[(h \div 4) + 1], x[(h \div 4) + 2], h % 4)

QuantileOf(x, a) == IF Len(x) = 0 THEN NaN ELSE QuantileAt(x, a * (Len(x) - 1))

\* Series.quantile(a/4), linear interpolation between the order statistics.
QuantileQuarters(s, a) == QuantileOf(SortedValid(s), a)

\* The mean of the two middle values when their number is even.
MedianOf(x, m) ==
    IF m = 0 THEN NaN
    ELSE IF m % 2 = 1 THEN x[(m + 1) \div 2]
    ELSE FDiv(FAdd(x[m \div 2], x[(m \div 2) + 1]), Num(2))

MedianSorted(x) == MedianOf(x, Len(x))

\* Series.median(): NaN skipped.
Median(s) == MedianSorted(SortedValid(s))

\* Mutant: the range method looks the kind up in the physical table.
detect_extreme_values_physical(t, name, value_col, method) ==
    LET ranges == DictGet(PHYSICAL_RANGES, NormalizeVariableName(name), Unbounded) IN
    IF value_col \notin t.cols THEN KeyError
    ELSE Ok(SetCol(t, "qc_extreme", OutsideRange(Col(t, value_col), ranges.min, ranges.max)))

\* Q1 - 3 * IQR and Q3 + 3 * IQR are the bounds of the IQR method.
OutsideFences(s, Q1, Q3, IQR) ==
    OutsideRange(s, FSub(Q1, FScale(3, IQR)), FAdd(Q3, FScale(3, IQR)))

OutsideQuartiles(s, Q1, Q3) == OutsideFences(s, Q1, Q3, FSub(Q3, Q1))

OutsideIqr(s) == OutsideQuartiles(s, QuantileQuarters(s, 1), QuantileQuarters(s, 3))

OutsideExpected(s, ranges) == OutsideRange(s, ranges.min, ranges.max)

\* The branches of detect_extreme_values: a method other than "range" and
\* "iqr" sets no column.
ExtremeFlags(t, name, value_col, method) ==
    IF method \notin {"range", "iqr"} THEN Ok(t)
    ELSE IF value_col \notin t.cols THEN KeyError
    ELSE IF method = "range"
         THEN Ok(SetCol(t, "qc_extreme",
                        OutsideExpected(Col(t, value_col),
                                        DictGet(EXPECTED_RANGES, NormalizeVariableName(name),
                                                Unbounded))))
    ELSE Ok(SetCol(t, "qc_extreme", OutsideIqr(Col(t, value_col))))

\* n_extreme = df['qc_extreme'].sum() reads the column whatever the method.
CountedExtreme(flagged) ==
    IF flagged.status = "ok" /\ "qc_extreme" \notin flagged.df.cols THEN KeyError
    ELSE flagged

\* QualityControl.detect_extreme_values
detect_extreme_values(t, name, value_col, method) ==
    CountedExtreme(ExtremeFlags(t, name, value_col, method))

\* s != s.shift(): the first cell is compared with a missing value, hence True.
ChangedFromPrevious(s) == [i \in 1..Len(s) |-> IF i = 1 THEN TRUE ELSE s[i] # s[i-1]]

\* Boolean Series.cumsum(): the running number of True cells.
RECURSIVE CumSum(_)
CumSum(s) ==
    IF Len(s) = 0 THEN <<>>
    ELSE LET before == CumSum(SubSeq(s, 1, Len(s) - 1))
             total == IF Len(before) = 0 THEN 0 ELSE before[Len(before)]
         IN Append(before, total + (IF s[Len(s)] THEN 1 ELSE 0))

\* s.groupby(groups).transform('sum'): each cell gets the number of True
\* cells of its group.
GroupSum(s, groups) ==
    [i \in 1..Len(s) |-> Cardinality({j \in 1..Len(s) : groups[j] = groups[i] /\ s[j]})]

\* Mutant: a run of "same" cells must itself be min_repeats long.
StuckFlagsFullRun(is_same, repeat_counts, min_repeats) ==
    [i \in 1..Len(is_same) |-> is_same[i] /\ repeat_counts[i] >= min_repeats]

\* Mutant: the count alone decides, without the is_same conjunct.
StuckFlagsCountOnly(is_same, repeat_counts, min_repeats) ==
    [i \in 1..Len(is_same) |-> repeat_counts[i] >= min_repeats - 1]

\* (is_same) & (repeat_counts >= min_repeats - 1)
StuckFlags(is_same, repeat_counts, min_repeats) ==
    [i \in 1..Len(is_same) |-> is_same[i] /\ repeat_counts[i] >= min_repeats - 1]

\* Mutant: a table of exactly n rows is taken to be too short as well.
ShorterOrEqual(t, n) == Len(t.rows) <= n

\* len(df) < n : the early return of the temporal checks
ShorterThan(t, n) == Len(t.rows) < n

\* QualityControl.detect_stuck_sensor
detect_stuck_sensor(t, value_col, min_repeats, tolerance) ==
    LET base == SetColConst(t, "qc_stuck", FALSE) IN
    IF ShorterThan(t, min_repeats) THEN Ok(base)
    ELSE IF value_col \notin t.cols THEN KeyError
    ELSE LET diff == AbsS(Diff(Col(base, value_col)))
             is_same == [i \in 1..Len(diff) |-> FLe(diff[i], tolerance)]
             groups == CumSum(ChangedFromPrevious(is_same))
             repeat_counts == GroupSum(is_same, groups)
         IN Ok(SetCol(base, "qc_stuck", StuckFlags(is_same, repeat_counts, min_repeats)))

\* The max_change_per_hour argument left at its default.
None == [k |-> "none", n |-> 0, d |-> 1]

SecondsPerHour == 3600

\* df[time_col].diff().dt.total_seconds() / 3600 : elapsed hours, NaN first.
TimeDiffHours(s) ==
    [i \in 1..Len(s) |-> IF i = 1 THEN NaN ELSE Rat(s[i] - s[i-1], SecondsPerHour)]

\* Series.replace(a, b)
Replace(s, a, b) == [i \in 1..Len(s) |-> IF FEq(s[i], a) THEN b ELSE s[i]]

\* Mutant: radiation takes the limit of wind.
SuddenThresholdsRadiacionTen ==
    (K_humedad :> Num(45)) @@
    (K_presion :> Num(10)) @@
    (K_radiacion :> Num(10)) @@
    (K_viento :> Num(10))

\* The thresholds of the kinds other than temperatura.
SuddenThresholds ==
    (K_humedad :> Num(45)) @@
    (K_presion :> Num(10)) @@
    (K_radiacion :> Num(555)) @@
    (K_viento :> Num(10))

\* Mutant: a kind without an entry falls back to the hourly temperature limit.
ActiveThresholdDefaultTen(name, median_interval, max_change_per_hour) ==
    IF max_change_per_hour # None THEN max_change_per_hour
    ELSE LET var_key == NormalizeVariableName(name) IN
         IF var_key = K_temperatura
         THEN (IF FLe(median_interval, Rat(1, 2)) THEN Num(4) ELSE Num(10))
         ELSE DictGet(SuddenThresholds, var_key, Num(10))

\* The "if max_change_per_hour is None" block of detect_sudden_changes.
ActiveThreshold(name, median_interval, max_change_per_hour) ==
    IF max_change_per_hour # None THEN max_change_per_hour
    ELSE LET var_key == NormalizeVariableName(name) IN
         IF var_key = K_temperatura
         THEN (IF FLe(median_interval, Rat(1, 2)) THEN Num(4) ELSE Num(10))
         ELSE DictGet(SuddenThresholds, var_key, Num(999))

\* Mutant: the elapsed hours are divided by as they are, zero included.
ChangeRateUnguarded(value_diff, time_diff) ==
    [i \in 1..Len(value_diff) |-> FDiv(value_diff[i], time_diff[i])]

\* value_diff / time_diff.replace(0, np.nan)
ChangeRate(value_diff, time_diff) ==
    LET den == Replace(time_diff, Num(0), NaN) IN
    [i \in 1..Len(value_diff) |-> FDiv(value_diff[i], den[i])]

\* A cell of a time column is a datetime (datetime64), the number of seconds
\* from 2024-01-01 00:00:00, or a text 'YYYY-MM-DD HH:00:00' (dtype object),
\* the number YYYYMMDDHH that the digits of its date and hour spell: ten
\* digits, which no datetime of the series considered reaches.
IsText(c) == c >= 1000000000

IsLeap(y) == y % 4 = 0 /\ (y % 100 # 0 \/ y % 400 = 0)
DaysInMonth(y, m) ==
    IF m = 2 THEN (IF IsLeap(y) THEN 29 ELSE 28)
    ELSE IF m \in {4, 6, 9, 11} THEN 30 ELSE 31

RECURSIVE DaysBeforeMonth(_, _)
DaysBeforeMonth(y, m) ==
    IF m = 1 THEN 0 ELSE DaysBeforeMonth(y, m - 1) + DaysInMonth(y, m - 1)

\* The days from 2024-01-01 to the first of January of year y.
LeapsBefore(y) == ((y - 1) \div 4) - ((y - 1) \div 100) + ((y - 1) \div 400)
DaysBeforeYear(y) == 365 * (y - 2024) + LeapsBefore(y) - LeapsBefore(2024)

\* The datetime that the text c is parsed to.
ParseTimestamp(c) ==
    LET year == c \div 1000000
        month == (c \div 10000) % 100
        day == (c \div 100) % 100
        hour == c % 100
    IN ((DaysBeforeYear(year) + DaysBeforeMonth(year, month) + day - 1) * 24 + hour)
           * SecondsPerHour

\* Mutant: the column is left as it was passed in.
to_datetime_as_passed(s) == s

\* pd.to_datetime(column): a column of texts becomes the column of the
\* datetimes they are parsed to, a column of datetimes stays as it is.
to_datetime(s) == [i \in 1..Len(s) |-> IF IsText(s[i]) THEN ParseTimestamp(s[i]) ELSE s[i]]

\* The statements of detect_sudden_changes from the time differences on, d
\* being the copy with its qc_sudden column set and its time column parsed.
SuddenFlags(d, name, value_col, time_col, max_change_per_hour) ==
    LET time_diff == TimeDiffHours(Col(d, time_col))
        threshold == ActiveThreshold(name, Median(time_diff), max_change_per_hour)
    IN  IF value_col \notin d.cols THEN KeyError
        ELSE LET value_diff == AbsS(Diff(Col(d, value_col)))
                 change_rate == ChangeRate(value_diff, time_diff)
             IN Ok(SetCol(d, "qc_sudden",
                          [i \in 1..Len(value_diff) |->
                              FGt(change_rate[i], threshold)
                              /\ FLe(time_diff[i], Num(2))]))

\* QualityControl.detect_sudden_changes: a table of two rows or more is
\* returned with its time column converted by pd.to_datetime.
detect_sudden_changes(t, name, value_col, time_col, max_change_per_hour) ==
    LET base == SetColConst(t, "qc_sudden", FALSE) IN
    IF ShorterThan(t, 2) THEN Ok(base)
    ELSE IF time_col \notin t.cols THEN KeyError
    ELSE SuddenFlags(SetCol(base, time_col, to_datetime(Col(base, time_col))),
                     name, value_col, time_col, max_change_per_hour)

\* Mutant: a run must be longer than min_zeros to be flagged.
detect_consecutive_zeros_longer(t, value_col, min_zeros) ==
    LET base == SetColConst(t, "qc_zeros", FALSE) IN
    IF ShorterThan(t, min_zeros) THEN Ok(base)
    ELSE IF value_col \notin t.cols THEN KeyError
    ELSE LET is_zero == [i \in 1..Len(t.rows) |-> FEq(t.rows[i][value_col], Num(0))]
             groups == CumSum(ChangedFromPrevious(is_zero))
             zero_counts == GroupSum(is_zero, groups)
         IN Ok(SetCol(base, "qc_zeros",
                      [i \in 1..Len(is_zero) |-> is_zero[i] /\ zero_counts[i] > min_zeros]))

\* QualityControl.detect_consecutive_zeros
detect_consecutive_zeros(t, value_col, min_zeros) ==
    LET base == SetColConst(t, "qc_zeros", FALSE) IN
    IF ShorterThan(t, min_zeros) THEN Ok(base)
    ELSE IF value_col \notin t.cols THEN KeyError
    ELSE LET is_zero == [i \in 1..Len(t.rows) |-> FEq(t.rows[i][value_col], Num(0))]
             groups == CumSum(ChangedFromPrevious(is_zero))
             zero_counts == GroupSum(is_zero, groups)
         IN Ok(SetCol(base, "qc_zeros",
                      [i \in 1..Len(is_zero) |-> is_zero[i] /\ zero_counts[i] >= min_zeros]))

\* The defaults of the arguments apply_all_checks leaves out.
DefaultMinRepeats == 4
DefaultTolerance == Rat(1, 1000)
DefaultMinZeros == 10

\* Mutant: the combined flag leaves qc_zeros out.
CombineFlagsWithoutZeros(t) ==
    SetCol(t, "qc_passed",
           [i \in 1..Len(t.rows) |->
               ~(t.rows[i]["qc_impossible"] \/ t.rows[i]["qc_extreme"]
                 \/ t.rows[i]["qc_stuck"] \/ t.rows[i]["qc_sudden"])])

\* The combined flag of apply_all_checks: passed if no flag is True.
CombineFlags(t) ==
    SetCol(t, "qc_passed",
           [i \in 1..Len(t.rows) |->
               ~(t.rows[i]["qc_impossible"] \/ t.rows[i]["qc_extreme"]
                 \/ t.rows[i]["qc_stuck"] \/ t.rows[i]["qc_sudden"]
                 \/ t.rows[i]["qc_zeros"])])

\* df = step(df) (qc.py:446-450): an exception raised so far ends the call,
\* otherwise the next statement runs on the table returned.
Then(r, step(_)) == IF r.status # "ok" THEN r ELSE step(r.df)

\* Mutant: the zeros check is left out for precipitation, where 0 is the
\* usual reading.
apply_all_checks_rain_exempt(t, name, value_col, time_col) ==
    Then(Then(Then(Then(Then(
        detect_impossible_values(t, name, value_col),
        LAMBDA d : detect_extreme_values(d, name, value_col, "range")),
        LAMBDA d : detect_stuck_sensor(d, value_col, DefaultMinRepeats, DefaultTolerance)),
        LAMBDA d : detect_sudden_changes(d, name, value_col, time_col, None)),
        LAMBDA d : IF NormalizeVariableName(name) = K_precipitacion
                   THEN Ok(SetColConst(d, "qc_zeros", FALSE))
                   ELSE detect_consecutive_zeros(d, value_col, DefaultMinZeros)),
        LAMBDA d : Ok(CombineFlags(d)))

\* QualityControl.apply_all_checks
apply_all_checks(t, name, value_col, time_col) ==
    Then(Then(Then(Then(Then(
        detect_impossible_values(t, name, value_col),
        LAMBDA d : detect_extreme_values(d, name, value_col, "range")),
        LAMBDA d : detect_stuck_sensor(d, value_col, DefaultMinRepeats, DefaultTolerance)),
        LAMBDA d : detect_sudden_changes(d, name, value_col, time_col, None)),
        LAMBDA d : detect_consecutive_zeros(d, value_col, DefaultMinZeros)),
        LAMBDA d : Ok(CombineFlags(d)))

\* Mutant: the filter drops only the physically impossible rows.
KeepPossible(t) ==
    [cols |-> t.cols, rows |-> SelectSeq(t.rows, LAMBDA r : ~r["qc_impossible"])]

\* df_qc[df_qc['qc_passed']]: the rows whose qc_passed is True, in order.
KeepPassed(t) ==
    [cols |-> t.cols, rows |-> SelectSeq(t.rows, LAMBDA r : r["qc_passed"])]

\* apply_quality_control
apply_quality_control(t, name, value_col, time_col, return_clean_only) ==
    Then(apply_all_checks(t, name, value_col, time_col),
         LAMBDA df_qc : IF return_clean_only THEN Ok(KeepPassed(df_qc)) ELSE Ok(df_qc))

\* Mutant: equal temperatures pass the test.
InconsistentWhenBelow(tmin, tmean, tmax) ==
    FLt(tmax, tmean) \/ FLt(tmean, tmin) \/ FLt(tmax, tmin)

\* (tmax <= tmean) | (tmean <= tmin) | (tmax <= tmin)
Inconsistent(tmin, tmean, tmax) ==
    FLe(tmax, tmean) \/ FLe(tmean, tmin) \/ FLe(tmax, tmin)

\* QualityControl.check_internal_consistency_temperature
check_internal_consistency_temperature(t, tmin_col, tmean_col, tmax_col) ==
    IF ~({tmin_col, tmean_col, tmax_col} \subseteq t.cols)
    THEN Ok(SetColConst(t, "qc_temp_consistency", FALSE))
    ELSE Ok(SetCol(t, "qc_temp_consistency",
                   [i \in 1..Len(t.rows) |->
                       Inconsistent(t.rows[i][tmin_col], t.rows[i][tmean_col],
                                    t.rows[i][tmax_col])]))

\* A value returned that is not a table: a dict, a list, None.
Value(v) == [status |-> "ok", value |-> v]

\* df[col].sum() if col in df else 0
FlagCount(t, col) == IF col \in t.cols THEN CountTrue(Col(t, col)) ELSE 0

\* Mutant: 'passed' counts the readings that did not pass.
get_qc_summary_failed(t) ==
    [total |-> Len(t.rows),
     passed |-> Len(t.rows) - FlagCount(t, "qc_passed"),
     impossible |-> FlagCount(t, "qc_impossible"),
     extreme |-> FlagCount(t, "qc_extreme"),
     stuck |-> FlagCount(t, "qc_stuck"),
     sudden |-> FlagCount(t, "qc_sudden"),
     zeros |-> FlagCount(t, "qc_zeros")]

\* QualityControl.get_qc_summary: the dict of counts.
get_qc_summary(t) ==
    [total |-> Len(t.rows),
     passed |-> FlagCount(t, "qc_passed"),
     impossible |-> FlagCount(t, "qc_impossible"),
     extreme |-> FlagCount(t, "qc_extreme"),
     stuck |-> FlagCount(t, "qc_stuck"),
     sudden |-> FlagCount(t, "qc_sudden"),
     zeros |-> FlagCount(t, "qc_zeros")]

-----------------------------------------------------------------------------
(* Temporal aggregation (src/src/iniamet/data.py).                         *)

ValueError == [status |-> "ValueError"]

\* DataFrame.empty: no rows or no columns.
Empty(t) == Len(t.rows) = 0 \/ t.cols = {}

\* The columns of boolean dtype, which aggregate as 0 and 1.
BoolColumns == {"qc_passed", "qc_impossible", "qc_extreme", "qc_stuck", "qc_sudden",
                "qc_zeros"}
AsFloats(col, cells) ==
    IF col \in BoolColumns
    THEN [i \in 1..Len(cells) |-> IF cells[i] THEN Num(1) ELSE Num(0)]
    ELSE cells

\* The cells that are not NaN, in their order.
Valid(s) == SelectSeq(s, LAMBDA v : ~IsNaN(v))

\* Plain accumulation, cell after cell (group_add of pandas before 1.3).
RECURSIVE FSum(_)
FSum(s) ==
    IF Len(s) = 0 THEN Num(0)
    ELSE CHOOSE v \in {FAdd(sumx, s[Len(s)]) : sumx \in {FSum(SubSeq(s, 1, Len(s) - 1))}} : TRUE

\* Kahan summation (group_sum and group_mean of pandas from 1.3 on):
\* y = val - compensation; t = sumx + y; compensation = t - sumx - y;
\* sumx = t.
KahanKeep(sumx, y, t) == [sumx |-> t, compensation |-> FSub(FSub(t, sumx), y)]
KahanAdd(sumx, y) == KahanKeep(sumx, y, FAdd(sumx, y))
KahanStep(acc, val) == KahanAdd(acc.sumx, FSub(val, acc.compensation))
RECURSIVE Kahan(_)
Kahan(s) ==
    IF Len(s) = 0 THEN [sumx |-> Num(0), compensation |-> Num(0)]
    ELSE CHOOSE v \in {KahanStep(acc, s[Len(s)]) : acc \in {Kahan(SubSeq(s, 1, Len(s) - 1))}} :
             TRUE
KahanSum(s) == Kahan(s).sumx

\* The sum of the valid cells of a group, as the installed pandas adds them.
GroupTotal(s) == IF compensated THEN KahanSum(s) ELSE FSum(s)

\* The quotient n/d in lowest terms.
Quotient(n, d) ==
    LET g == Gcd(AbsInt(n), d) IN Rat(n \div g, d \div g)

\* total / n
Mean(total, n) ==
    IF IsExact(total) THEN Quotient(total.n, total.d * n) ELSE FDiv(total, Num(n))

\* The reductions of a bin whose valid cells are x in ascending order and
\* add up to total.
ReduceTotal(func, x, total) ==
    IF func = "sum" THEN total
    ELSE IF Len(x) = 0 THEN NaN
    ELSE IF func = "mean" THEN Mean(total, Len(x))
    ELSE IF func = "min" THEN x[1]
    ELSE x[Len(x)]

\* The reductions of one bin of one column; NaN cells are skipped, and the
\* others are added in the order of the rows.
Reduce(func, s) == ReduceTotal(func, SortedValid(s), GroupTotal(Valid(s)))

\* min and max of a boolean column are booleans when every bin has a row;
\* a bin without rows holds NaN and makes the column one of floats, 1.0 for
\* True and 0.0 for False.
AsCell(c, func, r, holes) ==
    IF c \in BoolColumns /\ func \in {"min", "max"} /\ ~holes THEN r.n = 1 ELSE r

SecondsPerDay == 86400

\* df.set_index('tiempo').resample(rule).func().reset_index() for a rule of
\* bin seconds: one row per bin from the first reading's to the last's, each
\* other column reduced over the rows of the bin.  The rows are taken in the
\* order of tiempo, rows of one tiempo in their own order (the grouper sorts
\* an index that is not increasing with a stable sort).
ResampleSorted(t, bin, func) ==
    LET time == Col(t, "tiempo")
        first == CHOOSE b \in {time[i] \div bin : i \in 1..Len(time)} :
                     \A i \in 1..Len(time) : b <= time[i] \div bin
        last == CHOOSE b \in {time[i] \div bin : i \in 1..Len(time)} :
                    \A i \in 1..Len(time) : time[i] \div bin <= b
        In(b, c) == LET idx == SelectSeq([i \in 1..Len(time) |-> i],
                                        LAMBDA i : time[i] \div bin = b)
                    IN AsFloats(c, [k \in 1..Len(idx) |-> t.rows[idx[k]][c]])
        holes == \E b \in first..last : \A i \in 1..Len(time) : time[i] \div bin # b
    IN  [cols |-> t.cols,
         rows |-> [k \in 1..(last - first + 1) |->
                     [c \in t.cols |->
                         IF c = "tiempo" THEN (first + k - 1) * bin
                         ELSE AsCell(c, func, Reduce(func, In(first + k - 1, c)), holes)]]]

StableByTime(rows) ==
    LET idx == [k \in 1..Len(rows) |->
                   CHOOSE i \in 1..Len(rows) :
                       Cardinality({j \in 1..Len(rows) :
                                       \/ rows[j]["tiempo"] < rows[i]["tiempo"]
                                       \/ rows[j]["tiempo"] = rows[i]["tiempo"] /\ j < i})
                           = k - 1]
    IN [k \in 1..Len(rows) |-> rows[idx[k]]]

Resample(t, bin, func) ==
    ResampleSorted([cols |-> t.cols, rows |-> StableByTime(t.rows)], bin, func)

AggFuncs == {"mean", "sum", "min", "max"}

\* DataDownloader.aggregate_daily
aggregate_daily(t, agg_func) ==
    IF Empty(t) \/ "tiempo" \notin t.cols THEN Ok(t)
    ELSE IF agg_func \in AggFuncs THEN Ok(Resample(t, SecondsPerDay, agg_func))
    ELSE ValueError

-----------------------------------------------------------------------------
(* The API client (src/src/iniamet/api_client.py).                         *)

\* JSON values: a list, a dict without a 'response' key, a dict that wraps a
\* list under the key 'response', and None.
JList(name) == [type |-> "list", name |-> name, response |-> "-"]
JDict(name) == [type |-> "dict", name |-> name, response |-> "-"]
JWrapped(name) == [type |-> "dict", name |-> "wrapper", response |-> name]
JNone == [type |-> "none", name |-> "-", response |-> "-"]

\* if isinstance(data, dict) and 'response' in data: return data['response']
Unwrap(data) ==
    IF data.type = "dict" /\ data.response # "-" THEN JList(data.response) ELSE data

\* requests.exceptions.RequestException, raised from session.get or
\* response.raise_for_status.
Raised(error) == [status |-> "RequestException", error |-> error]

\* Mutant: the last attempt is taken to have a successor.
MoreAttemptsOneTooMany(n, retry) == n < retry

\* if attempt < retry - 1: wait and go round again
MoreAttempts(n, retry) == n < retry - 1

-----------------------------------------------------------------------------
(* The cache of one station/variable (src/src/iniamet/cache.py).           *)

ReturnedNone == Value(JNone)

\* Series.min() and Series.max() of a column of timestamps.
MinOf(s) == CHOOSE x \in {s[i] : i \in 1..Len(s)} : \A i \in 1..Len(s) : x <= s[i]
MaxOf(s) == CHOOSE x \in {s[i] : i \in 1..Len(s)} : \A i \in 1..Len(s) : s[i] <= x

\* df[(df['tiempo'] >= start_date) & (df['tiempo'] <= end_date)]
Between(t, start_date, end_date) ==
    [cols |-> t.cols,
     rows |-> SelectSeq(t.rows, LAMBDA r : r["tiempo"] >= start_date /\ r["tiempo"] <= end_date)]

\* cache_start <= start_date and cache_end >= end_date
Covers(t, start_date, end_date) ==
    MinOf(Col(t, "tiempo")) <= start_date /\ MaxOf(Col(t, "tiempo")) >= end_date

\* CacheManager.get_data: what it returns for the file as it is.  A file
\* without a 'tiempo' column raises inside the try and so yields None.
cache_get_data(file, start_date, end_date) ==
    IF file \in {Missing, NoDirectory} THEN ReturnedNone
    ELSE IF Empty(file) THEN ReturnedNone
    ELSE IF "tiempo" \notin file.cols THEN ReturnedNone
    ELSE IF Covers(file, start_date, end_date) THEN Ok(Between(file, start_date, end_date))
    ELSE ReturnedNone

\* CacheManager.clear_cache: the cache directory is removed with all below it
\* and made again, empty: the data directory is not.
clear_cache(file) == NoDirectory

\* CacheManager.__init__: the directories are made where they are missing.
CacheManager_init(file) == IF file = NoDirectory THEN Missing ELSE file

\* Mutant: of the rows of one timestamp the last one stays.
DropDuplicatesKeepLast(rows) ==
    LET idx == SelectSeq([i \in 1..Len(rows) |-> i],
                         LAMBDA i : \A j \in (i + 1)..Len(rows) :
                                        rows[j]["tiempo"] # rows[i]["tiempo"])
    IN [k \in 1..Len(idx) |-> rows[idx[k]]]

\* drop_duplicates(subset=['tiempo']): the first row of each timestamp stays.
DropDuplicates(rows) ==
    LET idx == SelectSeq([i \in 1..Len(rows) |-> i],
                         LAMBDA i : \A j \in 1..(i - 1) : rows[j]["tiempo"] # rows[i]["tiempo"])
    IN [k \in 1..Len(idx) |-> rows[idx[k]]]

\* sort_values('tiempo') of rows with distinct timestamps.
SortByTime(rows) ==
    LET idx == [k \in 1..Len(rows) |->
                   CHOOSE i \in 1..Len(rows) :
                       Cardinality({j \in 1..Len(rows) :
                                       rows[j]["tiempo"] < rows[i]["tiempo"]}) = k - 1]
    IN [k \in 1..Len(rows) |-> rows[idx[k]]]

\* CacheManager.save_data: the file after the call (tables of one and the
\* same set of columns).  An exception inside the try leaves the file alone.
cache_save_data(file, t) ==
    IF Empty(t) THEN file
    \* to_parquet raises where the directory is missing; the error is logged
    ELSE IF file = NoDirectory THEN NoDirectory
    ELSE IF file = Missing THEN t
    ELSE IF "tiempo" \notin file.cols \/ "tiempo" \notin t.cols THEN file
    ELSE [cols |-> file.cols, rows |-> SortByTime(DropDuplicates(file.rows \o t.rows))]

-----------------------------------------------------------------------------
(* The downloader (src/src/iniamet/data.py) on top of the API and the      *)
(* cache of one station/variable.                                          *)

VAR_PRECIPITACION == 2001
VAR_TEMPERATURA_MEDIA == 2002
VAR_TEMPERATURA_SUELO_10CM == 2027
VAR_TEMPERATURA_SUPERFICIE == 2077
VAR_HUMEDAD_RELATIVA == 2007

\* The aggregation argument left at its default, None.
NoAggregation == "<None>"
IsRaw(aggregation) == aggregation = NoAggregation \/ aggregation = "raw"

\* The bin of a pandas resample rule, in seconds.
RuleSeconds == ("D" :> SecondsPerDay) @@ ("H" :> SecondsPerHour)

\* api.get_data(desde, hasta): the readings the API holds on the days from
\* start_dt to end_dt, both included, as the downloader parses them.
api_get_data(held, start_dt, end_dt) ==
    SelectSeq(held, LAMBDA r : start_dt <= r["tiempo"] /\ r["tiempo"] < end_dt + SecondsPerDay)

\* The table of the temperatures: the mean, the minimum and the maximum of
\* each bin, and the mean once more as valor.
MeanMinMax(mean, min, max) ==
    [cols |-> {"tiempo", "valor_media", "valor_min", "valor_max", "valor"},
     rows |-> [k \in 1..Len(mean) |->
                 [tiempo |-> mean[k]["tiempo"],
                  valor_media |-> mean[k]["valor"],
                  valor_min |-> min[k]["valor"],
                  valor_max |-> max[k]["valor"],
                  valor |-> mean[k]["valor"]]]]

\* DataDownloader._apply_aggregation on a table of tiempo and valor.
apply_aggregation(t, variable_id, rule) ==
    IF Empty(t) THEN t
    ELSE IF variable_id \in {VAR_TEMPERATURA_MEDIA, VAR_TEMPERATURA_SUELO_10CM,
                             VAR_TEMPERATURA_SUPERFICIE}
    THEN MeanMinMax(Resample(t, RuleSeconds[rule], "mean").rows,
                    Resample(t, RuleSeconds[rule], "min").rows,
                    Resample(t, RuleSeconds[rule], "max").rows)
    ELSE Resample(t, RuleSeconds[rule],
                  IF variable_id = VAR_PRECIPITACION THEN "sum" ELSE "mean")

\* pd.DataFrame(data) with tiempo and valor parsed, sorted by tiempo.
Parsed(data) == [cols |-> {"tiempo", "valor"}, rows |-> SortByTime(data)]

\* The download branch of DataDownloader.get_data (data.py:99-137): what is
\* returned and the cache file afterwards.
Downloaded(file, held, start_dt, end_dt, variable, aggregation) ==
    LET data == api_get_data(held, start_dt, end_dt) IN
    IF Len(data) = 0 THEN [result |-> Ok([cols |-> {}, rows |-> <<>>]), file |-> file]
    ELSE IF IsRaw(aggregation)
    THEN [result |-> Ok(Parsed(data)),
          file |-> cache_save_data(file, Parsed(data))]
    ELSE [result |-> Ok(apply_aggregation(Parsed(data), variable, aggregation)),
          file |-> file]

\* if self.cache and use_cache: ... if df_cached is not None and not
\* df_cached.empty
CacheHit(file, start_dt, end_dt, use_cache, aggregation) ==
    /\ use_cache
    /\ "df" \in DOMAIN cache_get_data(file, start_dt, end_dt)
    /\ ~Empty(cache_get_data(file, start_dt, end_dt).df)

\* DataDownloader.get_data with a cache: what is returned and the cache file
\* afterwards, where the API answers the first request.
downloader_get_data(file, held, start_dt, end_dt, variable, use_cache, aggregation) ==
    IF CacheHit(file, start_dt, end_dt, use_cache, aggregation)
    THEN [result |-> cache_get_data(file, start_dt, end_dt), file |-> file]
    ELSE Downloaded(file, held, start_dt, end_dt, variable, aggregation)

-----------------------------------------------------------------------------
(* The callers' inputs.                                                    *)

N_Temp_padded == <<" ", "T", "e", "m", "p", " ">>
N_HUMEDAD == <<"H", "U", "M", "E", "D", "A", "D">>
N_caudal == <<"c", "a", "u", "d", "a", "l">>
N_presion_acute == <<"p", "r", "e", "s", "i", "ó", "n">>
N_PRESION_ACUTE_padded == <<"\t", "P", "R", "E", "S", "I", "Ó", "N", "\r", "\n">>

\* Recognized names (as written by callers) and two that no table knows: the
\* accented name does not contain "presion".
Names == {K_temperatura, N_Temp_padded, N_HUMEDAD, K_lluvia, K_viento,
          K_radiacion_solar, K_presion_atmosferica, N_caudal, N_PRESION_ACUTE_padded}

Row(t, v) == [tiempo |-> t, valor |-> v]
Table(rows) == [cols |-> {"tiempo", "valor"}, rows |-> rows]

\* All sequences of length at most n over the set S.
RECURSIVE SeqsUpTo(_, _)
SeqsUpTo(S, n) ==
    IF n = 0 THEN {<<>>}
    ELSE LET shorter == SeqsUpTo(S, n - 1) IN
         shorter \cup {Append(s, x) : s \in {q \in shorter : Len(q) = n - 1}, x \in S}

\* Readings one hour apart, starting at the origin.
Hourly(values) == [i \in 1..Len(values) |-> Row((i - 1) * SecondsPerHour, values[i])]

\* Readings of one day that are not doubles: their sum depends on the order
\* of the additions and on the compensation (0.1 + 0.2 + 0.3 is
\* 0.6000000000000001 added plainly and 0.6 compensated, six times 0.1 the
\* other way round).
DecimalReadings ==
    {<<Rat(1, 10), Rat(2, 10), Rat(3, 10)>>,
     <<Rat(3, 10), Rat(2, 10), Rat(1, 10)>>,
     <<Rat(1, 10), Rat(1, 10), Rat(1, 10), Rat(1, 10), Rat(1, 10), Rat(1, 10)>>,
     <<Rat(123, 10), Rat(119, 10), Rat(146, 10), Rat(132, 10)>>}

-----------------------------------------------------------------------------
(* Range checks: series of values on and around the limits of the tables.  *)

MaxLenRange == 2

\* The values next to the limits of the ranges of the normalized kind.
LimitsOf(name) ==
    LET key == NormalizeVariableName(name)
        p == DictGet(PHYSICAL_RANGES, key, Range(-1000, 1000))
        e == DictGet(EXPECTED_RANGES, key, Range(-1000, 1000))
    IN {p.min.n, p.max.n, e.min.n, e.max.n}

ValuesAround(name) ==
    {NaN} \cup {Num(b + o) : b \in LimitsOf(name), o \in {-1, 0, 1}}

InitRange ==
    /\ variable_name \in Names
    /\ \E values \in SeqsUpTo(ValuesAround(variable_name), MaxLenRange) :
          df = Table(Hourly(values))
    /\ call = NoCall
    /\ result = NoResult
    /\ Offline

CallDetectImpossible ==
    /\ call = NoCall
    /\ call' = [op |-> "detect_impossible_values"]
    /\ result' = detect_impossible_values(df, variable_name, "valor")
    /\ UNCHANGED <<df, variable_name, ioVars>>

Methods == {"range", "iqr", "zscore"}

CallDetectExtreme ==
    /\ call = NoCall
    /\ \E method \in Methods :
          /\ call' = [op |-> "detect_extreme_values", method |-> method]
          /\ result' = detect_extreme_values(df, variable_name, "valor", method)
    /\ UNCHANGED <<df, variable_name, ioVars>>

NextRange == CallDetectImpossible \/ CallDetectExtreme

SpecRange == InitRange /\ [][NextRange]_vars

\* The normalized kind of the call, and the cells of the table it returned.
Kind == NormalizeVariableName(variable_name)
Returned(i, c) == result.df.rows[i][c]
SameReadings ==
    /\ Len(result.df.rows) = Len(df.rows)
    /\ \A i \in 1..Len(df.rows) :
          /\ Returned(i, "valor") = df.rows[i]["valor"]
          /\ Returned(i, "tiempo") = df.rows[i]["tiempo"]

\* C3: detect_impossible_values flags a reading iff its value is strictly
\* below the physical minimum or strictly above the physical maximum of the
\* normalized kind; a value equal to a limit is not flagged, and a kind
\* without a physical range has no reading flagged.
C3_ImpossibleIffOutsidePhysical ==
    call.op = "detect_impossible_values" =>
        /\ result.status = "ok"
        /\ SameReadings
        /\ \A i \in 1..Len(df.rows) :
              LET v == df.rows[i]["valor"] IN
              Returned(i, "qc_impossible") <=>
                  /\ Kind \in DOMAIN PHYSICAL_RANGES
                  /\ IsNum(v)
                  /\ \/ v.n < PHYSICAL_RANGES[Kind].min.n * v.d
                     \/ v.n > PHYSICAL_RANGES[Kind].max.n * v.d

\* A call that flags one reading and leaves a reading at the maximum alone.
C3_Witness ==
    /\ call.op = "detect_impossible_values"
    /\ result.status = "ok"
    /\ Kind \in DOMAIN PHYSICAL_RANGES
    /\ \E i, j \in 1..Len(df.rows) :
          /\ Returned(i, "qc_impossible")
          /\ df.rows[j]["valor"] = PHYSICAL_RANGES[Kind].max
          /\ ~Returned(j, "qc_impossible")

\* C4: with the 'range' method and a kind that has an expected range,
\* detect_extreme_values never flags a value strictly inside the range,
\* always flags a value below the minimum or above the maximum, and does not
\* flag a value equal to the minimum or the maximum.
C4_ExtremeRangeMethod ==
    (/\ call.op = "detect_extreme_values"
     /\ call.method = "range"
     /\ Kind \in DOMAIN EXPECTED_RANGES) =>
        /\ result.status = "ok"
        /\ SameReadings
        /\ \A i \in 1..Len(df.rows) :
              LET v == df.rows[i]["valor"]
                  lo == EXPECTED_RANGES[Kind].min.n
                  hi == EXPECTED_RANGES[Kind].max.n
              IN  IsNum(v) =>
                    /\ (lo * v.d < v.n /\ v.n < hi * v.d) => ~Returned(i, "qc_extreme")
                    /\ (v.n < lo * v.d \/ v.n > hi * v.d) => Returned(i, "qc_extreme")
                    /\ (v.n = lo * v.d \/ v.n = hi * v.d) => ~Returned(i, "qc_extreme")

\* A 'range' call that flags a value above the expected maximum which the
\* physical range still admits, next to an unflagged value at the minimum.
C4_Witness ==
    /\ call.op = "detect_extreme_values"
    /\ call.method = "range"
    /\ result.status = "ok"
    /\ Kind \in DOMAIN EXPECTED_RANGES
    /\ \E i, j \in 1..Len(df.rows) :
          /\ Returned(i, "qc_extreme")
          /\ FGt(df.rows[i]["valor"], EXPECTED_RANGES[Kind].max)
          /\ FLt(df.rows[i]["valor"], PHYSICAL_RANGES[Kind].max)
          /\ df.rows[j]["valor"] = EXPECTED_RANGES[Kind].min
          /\ ~Returned(j, "qc_extreme")

-----------------------------------------------------------------------------
(* The persistence test: hourly series over a few close values.            *)

MaxLenStuck == 6
MaxMinRepeats == 5

StuckValues == {NaN, Num(15), Num(16)}
\* Series of readings that are not doubles: their differences are rounded, to
\* just above the double 0.001 (1 - 0.999, 15.002 - 15.001) or just below
\* it (15.001 - 15).
DecimalSeries ==
    {<<Num(1), Rat(999, 1000), Num(1), Rat(999, 1000)>>,
     <<Num(15), Rat(15001, 1000), Rat(15002, 1000), Rat(15003, 1000), Rat(15005, 1000)>>,
     <<Rat(15001, 1000), Num(15), Rat(15001, 1000), Num(15), Rat(15001, 1000)>>}
Tolerances == {Num(0), DefaultTolerance, Num(1)}

InitStuck ==
    /\ variable_name = K_temperatura
    /\ \E values \in SeqsUpTo(StuckValues, MaxLenStuck) \cup DecimalSeries :
          df = Table(Hourly(values))
    /\ call = NoCall
    /\ result = NoResult
    /\ Offline

CallDetectStuck ==
    /\ call = NoCall
    /\ \E min_repeats \in 1..MaxMinRepeats, tolerance \in Tolerances :
          /\ call' = [op |-> "detect_stuck_sensor",
                      min_repeats |-> min_repeats, tolerance |-> tolerance]
          /\ result' = detect_stuck_sensor(df, "valor", min_repeats, tolerance)
    /\ UNCHANGED <<df, variable_name, ioVars>>

NextStuck == CallDetectStuck

SpecStuck == InitStuck /\ [][NextStuck]_vars

\* The maximal runs of identical values of the caller's series: <<a, b>> with
\* rows a..b holding one and the same number, and no longer such interval.
Identical(a, b) ==
    \A i \in a..b : IsNum(df.rows[i]["valor"]) /\ df.rows[i]["valor"] = df.rows[a]["valor"]
MaximalRuns ==
    {ab \in (1..Len(df.rows)) \X (1..Len(df.rows)) :
        /\ ab[1] <= ab[2]
        /\ Identical(ab[1], ab[2])
        /\ ab[1] > 1 => ~Identical(ab[1] - 1, ab[2])
        /\ ab[2] < Len(df.rows) => ~Identical(ab[1], ab[2] + 1)}
StuckIn(a, b) == Cardinality({i \in a..b : Returned(i, "qc_stuck")})

\* The two halves of the run property for one call.
RunProperty ==
    /\ result.status = "ok"
    /\ SameReadings
    /\ \A ab \in MaximalRuns :
          LET N == ab[2] - ab[1] + 1 IN
          /\ N >= call.min_repeats => StuckIn(ab[1], ab[2]) >= N - call.min_repeats + 1
          /\ N < call.min_repeats => StuckIn(ab[1], ab[2]) = 0

\* C5 as stated: for every min_repeats >= 1 (tolerance 0) a maximal run of N
\* identical values with N >= min_repeats has at least N - min_repeats + 1
\* readings flagged stuck, and a run with N < min_repeats has none.
C5_Original ==
    (call.op = "detect_stuck_sensor" /\ call.tolerance = Num(0)) => RunProperty

\* C5 amended: the same for every min_repeats >= 2.
C5_RunFlagsFromTwoRepeats ==
    (/\ call.op = "detect_stuck_sensor"
     /\ call.tolerance = Num(0)
     /\ call.min_repeats >= 2) => RunProperty

\* A call with min_repeats >= 2 on a series holding a run that is exactly
\* min_repeats long (flagged) and a shorter run of two (not flagged).
C5_Witness ==
    /\ call.op = "detect_stuck_sensor"
    /\ call.tolerance = Num(0)
    /\ call.min_repeats >= 3
    /\ result.status = "ok"
    /\ \E ab \in MaximalRuns, cd \in MaximalRuns :
          /\ ab[2] - ab[1] + 1 = call.min_repeats
          /\ StuckIn(ab[1], ab[2]) > 0
          /\ cd[2] - cd[1] + 1 = 2
          /\ StuckIn(cd[1], cd[2]) = 0

\* The scenario of C6: four hourly readings of 15.0, tolerance 0.001,
\* min_repeats 4.
FourFifteens == Table(Hourly(<<Num(15), Num(15), Num(15), Num(15)>>))
C6_Scenario ==
    /\ df = FourFifteens
    /\ call.op = "detect_stuck_sensor"
    /\ call.min_repeats = DefaultMinRepeats
    /\ call.tolerance = DefaultTolerance

\* C6 as stated: in the scenario all four readings are flagged stuck,
\* the first one included.
C6_Original ==
    C6_Scenario =>
        /\ result.status = "ok"
        /\ \A i \in 1..Len(df.rows) : Returned(i, "qc_stuck")

\* C6 amended: in the scenario the second, third and fourth readings are
\* flagged stuck and the first one is not.
C6_LastThreeFlagged ==
    C6_Scenario =>
        /\ result.status = "ok"
        /\ SameReadings
        /\ \A i \in 1..Len(df.rows) : Returned(i, "qc_stuck") <=> i >= 2

\* The scenario, called, with its last reading flagged.
C6_Witness ==
    /\ C6_Scenario
    /\ result.status = "ok"
    /\ Returned(Len(df.rows), "qc_stuck")

\* C7: whatever the series, min_repeats and tolerance, detect_stuck_sensor
\* never flags the first reading of the series.
C7_FirstNeverStuck ==
    (call.op = "detect_stuck_sensor" /\ Len(df.rows) >= 1) =>
        /\ result.status = "ok"
        /\ ~Returned(1, "qc_stuck")

\* A call that flags the second reading, equal to the first, and not the first.
C7_Witness ==
    /\ call.op = "detect_stuck_sensor"
    /\ result.status = "ok"
    /\ Len(df.rows) >= 2
    /\ df.rows[1]["valor"] = df.rows[2]["valor"]
    /\ Returned(2, "qc_stuck")
    /\ ~Returned(1, "qc_stuck")

-----------------------------------------------------------------------------
(* The temporal-consistency test: readings in any order of time.           *)

MaxLenSudden == 3

SuddenTimes == {0, 900, 7200, 9000}
SuddenValues == {NaN, Num(0), Num(5), Num(2000)}
SuddenNames == {K_temperatura, N_HUMEDAD, N_caudal}
Overrides == {None, Num(20)}

InitSudden ==
    /\ variable_name \in SuddenNames
    /\ \E rows \in SeqsUpTo({Row(t, v) : t \in SuddenTimes, v \in SuddenValues}, MaxLenSudden) :
          df = Table(rows)
    /\ call = NoCall
    /\ result = NoResult
    /\ Offline

CallDetectSudden ==
    /\ call = NoCall
    /\ \E max_change_per_hour \in Overrides :
          /\ call' = [op |-> "detect_sudden_changes",
                      max_change_per_hour |-> max_change_per_hour]
          /\ result' = detect_sudden_changes(df, variable_name, "valor", "tiempo",
                                             max_change_per_hour)
    /\ UNCHANGED <<df, variable_name, ioVars>>

NextSudden == CallDetectSudden

SpecSudden == InitSudden /\ [][NextSudden]_vars

\* The threshold in force for the call made on the caller's series.
CallThreshold ==
    ActiveThreshold(variable_name, Median(TimeDiffHours(Col(df, "tiempo"))),
                    call.max_change_per_hour)

\* Seconds elapsed since the preceding reading, and the size of the jump.
Elapsed(i) == df.rows[i]["tiempo"] - df.rows[i-1]["tiempo"]
Jump(i) == AbsInt(df.rows[i]["valor"].n - df.rows[i-1]["valor"].n)

\* |jump| / elapsed hours > threshold, for a non-zero elapsed time (the
\* quotient is negative when the predecessor is later in time).
RateExceeds(i, thr) ==
    IF Elapsed(i) > 0
    THEN Jump(i) * SecondsPerHour * thr.d > thr.n * Elapsed(i)
    ELSE Jump(i) * SecondsPerHour * thr.d < thr.n * Elapsed(i)

\* C8: detect_sudden_changes flags a reading iff it has a predecessor, the
\* elapsed time to it is non-zero and at most 2 hours, and |jump| / elapsed
\* hours is strictly greater than the active threshold; a gap longer than 2
\* hours or two identical timestamps never flag and never raise.
C8_SuddenIffRateWithinTwoHours ==
    call.op = "detect_sudden_changes" =>
        /\ result.status = "ok"
        /\ SameReadings
        /\ \A i \in 1..Len(df.rows) :
              Returned(i, "qc_sudden") <=>
                  /\ i > 1
                  /\ IsNum(df.rows[i]["valor"]) /\ IsNum(df.rows[i-1]["valor"])
                  /\ Elapsed(i) # 0
                  /\ Elapsed(i) <= 2 * SecondsPerHour
                  /\ RateExceeds(i, CallThreshold)

\* One call in which a jump over a gap of at most 2 hours is flagged and the
\* same jump over a gap of more than 2 hours is not.
C8_Witness ==
    /\ call.op = "detect_sudden_changes"
    /\ result.status = "ok"
    /\ \E i, j \in 2..Len(df.rows) :
          /\ Returned(i, "qc_sudden")
          /\ Elapsed(i) > 0
          /\ Elapsed(j) > 2 * SecondsPerHour
          /\ IsNum(df.rows[j]["valor"]) /\ IsNum(df.rows[j-1]["valor"])
          /\ Jump(j) = Jump(i)
          /\ ~Returned(j, "qc_sudden")

\* The rows of the caller's series in order of time: SortPerm[k] is the
\* position, in the series as given, of the k-th reading by time (readings
\* of one timestamp keep their order).
Before(i, j) ==
    \/ df.rows[i]["tiempo"] < df.rows[j]["tiempo"]
    \/ df.rows[i]["tiempo"] = df.rows[j]["tiempo"] /\ i < j
SortPerm ==
    [k \in 1..Len(df.rows) |->
        CHOOSE i \in 1..Len(df.rows) :
            Cardinality({j \in 1..Len(df.rows) : Before(j, i)}) = k - 1]
TimeSorted == [cols |-> df.cols, rows |-> [k \in 1..Len(df.rows) |-> df.rows[SortPerm[k]]]]

\* C9: the temporal checks see the series sorted by time: whatever the order
\* of the rows, every reading gets the sudden (stuck) flag that the check
\* gives it on the time-sorted series.
C9_FlagsAsOnTimeSortedSeries ==
    /\ call.op = "detect_sudden_changes" =>
          LET sorted == detect_sudden_changes(TimeSorted, variable_name, "valor", "tiempo",
                                              call.max_change_per_hour)
          IN  /\ result.status = "ok"
              /\ \A k \in 1..Len(df.rows) :
                    Returned(SortPerm[k], "qc_sudden") = sorted.df.rows[k]["qc_sudden"]
    /\ call.op = "detect_stuck_sensor" =>
          LET sorted == detect_stuck_sensor(TimeSorted, "valor", call.min_repeats,
                                            call.tolerance)
          IN  /\ result.status = "ok"
              /\ \A k \in 1..Len(df.rows) :
                    Returned(SortPerm[k], "qc_stuck") = sorted.df.rows[k]["qc_stuck"]

-----------------------------------------------------------------------------
(* The combinator and the clean-only filter: a short series in order of    *)
(* time, then possibly a long hourly tail of zeros.                        *)

MaxLen == 2

Values == {NaN, Num(0), Num(15), Num(45), Num(999), Num(-999)}
Gaps == {0, 900, 10800}
TailLens == {0, DefaultMinZeros - 1}
SpecNames == {K_temperatura, N_HUMEDAD, K_lluvia, K_viento, K_radiacion_solar, N_caudal}

\* The readings of steps <<gap, value>>: each gap seconds after the last.
RECURSIVE FromSteps(_)
FromSteps(steps) ==
    IF Len(steps) = 0 THEN <<>>
    ELSE LET before == FromSteps(SubSeq(steps, 1, Len(steps) - 1))
             last == steps[Len(steps)]
             start == IF Len(before) = 0 THEN 0 ELSE before[Len(before)]["tiempo"]
         IN Append(before, Row(start + last[1], last[2]))

\* rows followed by n hourly readings of 0.
WithZeroTail(rows, n) ==
    LET start == IF Len(rows) = 0 THEN 0 ELSE rows[Len(rows)]["tiempo"] IN
    rows \o [i \in 1..n |-> Row(start + i * SecondsPerHour, Num(0))]

Init ==
    /\ variable_name \in SpecNames
    /\ \E steps \in SeqsUpTo(Gaps \X Values, MaxLen), n \in TailLens :
          /\ Len(steps) > 0 => steps[1][1] = 0
          /\ df = Table(WithZeroTail(FromSteps(steps), n))
    /\ call = NoCall
    /\ result = NoResult
    /\ Offline

CallApplyAllChecks ==
    /\ call = NoCall
    /\ call' = [op |-> "apply_all_checks"]
    /\ result' = apply_all_checks(df, variable_name, "valor", "tiempo")
    /\ UNCHANGED <<df, variable_name, ioVars>>

CallApplyQualityControl ==
    /\ call = NoCall
    /\ \E return_clean_only \in BOOLEAN :
          /\ call' = [op |-> "apply_quality_control",
                      return_clean_only |-> return_clean_only]
          /\ result' = apply_quality_control(df, variable_name, "valor", "tiempo",
                                             return_clean_only)
    /\ UNCHANGED <<df, variable_name, ioVars>>

Next == CallApplyAllChecks \/ CallApplyQualityControl

Spec == Init /\ [][Next]_vars

FlagColumns == {"qc_impossible", "qc_extreme", "qc_stuck", "qc_sudden", "qc_zeros"}

\* C1: in the output of apply_all_checks every reading has qc_passed true
\* iff all five flags are false.
C1_PassedIsNorOfFlags ==
    call.op = "apply_all_checks" =>
        /\ result.status = "ok"
        /\ SameReadings
        /\ \A i \in 1..Len(df.rows) :
              Returned(i, "qc_passed") <=> \A c \in FlagColumns : ~Returned(i, c)

\* An output with a passed reading and a reading failed by qc_zeros alone.
C1_Witness ==
    /\ call.op = "apply_all_checks"
    /\ result.status = "ok"
    /\ \E i, j \in 1..Len(df.rows) :
          /\ Returned(i, "qc_passed")
          /\ ~Returned(j, "qc_passed")
          /\ \A c \in FlagColumns : Returned(j, c) <=> c = "qc_zeros"

\* The readings <<tiempo, valor>> of a table, and those of the caller's
\* series that pass all checks.
Readings(t) == [i \in 1..Len(t.rows) |-> <<t.rows[i]["tiempo"], t.rows[i]["valor"]>>]
PassedOfInput ==
    LET annotated == apply_all_checks(df, variable_name, "valor", "tiempo").df
        idx == SelectSeq([i \in 1..Len(df.rows) |-> i],
                         LAMBDA i : annotated.rows[i]["qc_passed"])
    IN [k \in 1..Len(idx) |-> <<df.rows[idx[k]]["tiempo"], df.rows[idx[k]]["valor"]>>]

\* C2: apply_quality_control with return_clean_only=True returns exactly the
\* readings of the input whose qc_passed is true, in input order and
\* unchanged; none of them lies outside the physical range of the kind, and
\* the result is not longer than the input.
C2_CleanOnlyKeepsPassed ==
    (call.op = "apply_quality_control" /\ call.return_clean_only) =>
        /\ result.status = "ok"
        /\ Readings(result.df) = PassedOfInput
        /\ Len(result.df.rows) <= Len(df.rows)
        /\ \A i \in 1..Len(result.df.rows) :
              /\ Returned(i, "qc_passed")
              /\ \A c \in FlagColumns : ~Returned(i, c)
              /\ Kind \in DOMAIN PHYSICAL_RANGES =>
                    /\ ~FLt(Returned(i, "valor"), PHYSICAL_RANGES[Kind].min)
                    /\ ~FGt(Returned(i, "valor"), PHYSICAL_RANGES[Kind].max)

\* A clean-only call on a series holding 999 that returns some readings but
\* not all, the one after the dropped 999 among them.
C2_Witness ==
    /\ call.op = "apply_quality_control" /\ call.return_clean_only
    /\ result.status = "ok"
    /\ Kind \in DOMAIN PHYSICAL_RANGES
    /\ 0 < Len(result.df.rows) /\ Len(result.df.rows) < Len(df.rows)
    /\ \E i \in 1..Len(df.rows) : df.rows[i]["valor"] = Num(999)
    /\ \A i \in 1..Len(result.df.rows) : Returned(i, "valor") # Num(999)

\* A kind that none of the tables knows.
Unrecognized ==
    /\ Kind # K_temperatura
    /\ Kind \notin DOMAIN PHYSICAL_RANGES
    /\ Kind \notin DOMAIN EXPECTED_RANGES
    /\ Kind \notin DOMAIN SuddenThresholds

\* C10 as stated: for an unrecognized kind apply_all_checks sets none of the
\* flags impossible, extreme and sudden, whatever the values and the jumps.
C10_Original ==
    (call.op = "apply_all_checks" /\ Unrecognized) =>
        /\ result.status = "ok"
        /\ \A i \in 1..Len(df.rows) :
              /\ ~Returned(i, "qc_impossible")
              /\ ~Returned(i, "qc_extreme")
              /\ ~Returned(i, "qc_sudden")

\* C10 amended: for an unrecognized kind apply_all_checks sets neither
\* impossible nor extreme on any reading, and sets sudden exactly on the
\* readings whose change since the preceding reading exceeds 999 per hour
\* over a non-zero gap of at most 2 hours.
C10_UnrecognizedKindDefaults ==
    (call.op = "apply_all_checks" /\ Unrecognized) =>
        /\ result.status = "ok"
        /\ SameReadings
        /\ \A i \in 1..Len(df.rows) :
              /\ ~Returned(i, "qc_impossible")
              /\ ~Returned(i, "qc_extreme")
              /\ Returned(i, "qc_sudden") <=>
                    /\ i > 1
                    /\ IsNum(df.rows[i]["valor"]) /\ IsNum(df.rows[i-1]["valor"])
                    /\ Elapsed(i) # 0
                    /\ Elapsed(i) <= 2 * SecondsPerHour
                    /\ RateExceeds(i, Num(999))

\* An unrecognized kind: a reading of 999 with neither range flag, a jump
\* within 2 hours that stays unflagged, and a faster one that is flagged.
C10_Witness ==
    /\ call.op = "apply_all_checks" /\ Unrecognized
    /\ result.status = "ok"
    /\ \E i \in 1..Len(df.rows) :
          /\ df.rows[i]["valor"] = Num(999)
          /\ ~Returned(i, "qc_impossible") /\ ~Returned(i, "qc_extreme")
    /\ \E j \in 2..Len(df.rows) :
          /\ IsNum(df.rows[j]["valor"]) /\ IsNum(df.rows[j-1]["valor"])
          /\ Jump(j) > 0
          /\ 0 < Elapsed(j) /\ Elapsed(j) <= 2 * SecondsPerHour
          /\ ~Returned(j, "qc_sudden")
    /\ \E j \in 2..Len(df.rows) : Returned(j, "qc_sudden")

-----------------------------------------------------------------------------
(* The zeros test: hourly series of zeros, other numbers and gaps.         *)

MaxLenZeros == 6
MaxMinZeros == 4

ZeroValues == {NaN, Num(0), Num(1)}
MinZerosArgs == (1..MaxMinZeros) \cup {DefaultMinZeros}

InitZeros ==
    /\ variable_name = K_precipitacion
    /\ \E values \in SeqsUpTo(ZeroValues, MaxLenZeros) : df = Table(Hourly(values))
    /\ call = NoCall
    /\ result = NoResult
    /\ Offline

CallDetectZeros ==
    /\ call = NoCall
    /\ \E min_zeros \in MinZerosArgs :
          /\ call' = [op |-> "detect_consecutive_zeros", min_zeros |-> min_zeros]
          /\ result' = detect_consecutive_zeros(df, "valor", min_zeros)
    /\ UNCHANGED <<df, variable_name, ioVars>>

NextZeros == CallDetectZeros

SpecZeros == InitZeros /\ [][NextZeros]_vars

\* The maximal runs of exact zeros of the caller's series: <<a, b>> with rows
\* a..b all holding 0, preceded and followed by something else or nothing.
ZeroAt(i) == IsNum(df.rows[i]["valor"]) /\ df.rows[i]["valor"].n = 0
MaximalZeroRuns ==
    {ab \in (1..Len(df.rows)) \X (1..Len(df.rows)) :
        /\ ab[1] <= ab[2]
        /\ \A i \in ab[1]..ab[2] : ZeroAt(i)
        /\ ab[1] > 1 => ~ZeroAt(ab[1] - 1)
        /\ ab[2] < Len(df.rows) => ~ZeroAt(ab[2] + 1)}

\* C11: detect_consecutive_zeros flags a reading iff its value is exactly
\* zero and it lies in a maximal run of exact zeros at least min_zeros long
\* (the first reading of the run included); a series shorter than min_zeros
\* has no reading flagged.
C11_ZerosIffInLongZeroRun ==
    call.op = "detect_consecutive_zeros" =>
        /\ result.status = "ok"
        /\ SameReadings
        /\ \A i \in 1..Len(df.rows) :
              Returned(i, "qc_zeros") <=>
                  /\ ZeroAt(i)
                  /\ \E ab \in MaximalZeroRuns :
                        /\ ab[1] <= i /\ i <= ab[2]
                        /\ ab[2] - ab[1] + 1 >= call.min_zeros
        /\ Len(df.rows) < call.min_zeros =>
              \A i \in 1..Len(df.rows) : ~Returned(i, "qc_zeros")

\* One call on a series holding a run of exactly min_zeros zeros, flagged
\* from its first reading on, and a shorter run of zeros left unflagged.
C11_Witness ==
    /\ call.op = "detect_consecutive_zeros"
    /\ call.min_zeros >= 2
    /\ result.status = "ok"
    /\ \E ab \in MaximalZeroRuns, cd \in MaximalZeroRuns :
          /\ ab[2] - ab[1] + 1 = call.min_zeros
          /\ Returned(ab[1], "qc_zeros")
          /\ cd[2] - cd[1] + 1 < call.min_zeros
          /\ ~Returned(cd[1], "qc_zeros")

-----------------------------------------------------------------------------
(* A caller's session on short and malformed tables: any check, the        *)
(* combinator and the summary, each possibly run on the table a previous   *)
(* check returned.                                                         *)

MaxLenEdge == 2
MaxCalls == 3

EdgeValues == {NaN, Num(0), Num(999)}
EdgeNames == {K_temperatura, N_caudal}

\* The table with only the columns cols of t (pd.DataFrame() has none).
Project(t, cols) ==
    [cols |-> cols, rows |-> [i \in 1..Len(t.rows) |-> [c \in cols |-> t.rows[i][c]]]]

InitEdge ==
    /\ variable_name \in EdgeNames
    /\ \E values \in SeqsUpTo(EdgeValues, MaxLenEdge), cols \in SUBSET {"tiempo", "valor"} :
          df = Project(Table(Hourly(values)), cols)
    /\ call = NoCall
    /\ result = NoResult
    /\ Offline

\* get_qc_summary(df), any number of times on the table at hand.
CallGetQcSummary ==
    /\ call = NoCall \/ call.op = "get_qc_summary"
    /\ LET nth == IF call = NoCall THEN 1 ELSE call.nth + 1 IN
       /\ nth <= MaxCalls
       /\ call' = [op |-> "get_qc_summary", nth |-> nth]
    /\ result' = Value(get_qc_summary(df))
    /\ UNCHANGED <<df, variable_name, ioVars>>

\* df = qc.check(df): the caller goes on with the table a check returned.
CheckOps == {"detect_impossible_values", "detect_extreme_values", "detect_stuck_sensor",
             "detect_sudden_changes", "detect_consecutive_zeros", "apply_all_checks"}
Rebind ==
    /\ call.op \in CheckOps
    /\ result.status = "ok"
    /\ df' = result.df
    /\ call' = NoCall
    /\ result' = NoResult
    /\ UNCHANGED <<variable_name, ioVars>>

NextEdge ==
    \/ CallDetectImpossible
    \/ CallDetectExtreme
    \/ CallDetectStuck
    \/ CallDetectSudden
    \/ CallDetectZeros
    \/ CallApplyAllChecks
    \/ CallGetQcSummary
    \/ Rebind

SpecEdge == InitEdge /\ [][NextEdge]_vars

\* A series of length 0 or 1 that has its value and timestamp columns.
ShortSeries == Len(df.rows) <= 1 /\ {"tiempo", "valor"} \subseteq df.cols
NoneFlagged(c) == \A i \in 1..Len(result.df.rows) : ~Returned(i, c)

\* What C12 says of the checks and the summary, the zeros flag being false
\* for the calls with min_zeros in Over: none of the five checks (called
\* with a method it knows) nor apply_all_checks ends in an error, the stuck
\* and sudden flags are false whatever the arguments, on the empty series
\* apply_all_checks returns an empty table carrying all the flag columns and
\* get_qc_summary returns zero for total, passed and every flag count.
ShortSeriesNeverFail(Over) ==
    ShortSeries =>
        /\ (/\ call.op \in CheckOps
            /\ call.op = "detect_extreme_values" => call.method \in {"range", "iqr"}) =>
              /\ result.status = "ok"
              /\ Len(result.df.rows) = Len(df.rows)
        /\ call.op = "detect_stuck_sensor" => NoneFlagged("qc_stuck")
        /\ call.op = "detect_sudden_changes" => NoneFlagged("qc_sudden")
        /\ (call.op = "detect_consecutive_zeros" /\ call.min_zeros \in Over) =>
              NoneFlagged("qc_zeros")
        /\ call.op = "apply_all_checks" =>
              /\ NoneFlagged("qc_stuck") /\ NoneFlagged("qc_sudden") /\ NoneFlagged("qc_zeros")
              /\ Len(df.rows) = 0 =>
                    /\ result.df.rows = <<>>
                    /\ df.cols \cup FlagColumns \cup {"qc_passed"} \subseteq result.df.cols
        /\ (call.op = "get_qc_summary" /\ Len(df.rows) = 0) =>
              /\ result.status = "ok"
              /\ \A k \in DOMAIN result.value : result.value[k] = 0

\* C12 as stated: on a series of length 0 or 1 none of the five checks nor
\* apply_all_checks ends in an error; the stuck, sudden and zeros flags are
\* all false, whatever min_zeros is; on the empty series apply_all_checks
\* returns an empty annotated series and get_qc_summary returns zero for
\* total, passed and every flag count.
C12_Original == ShortSeriesNeverFail(MinZerosArgs)

\* C12 amended: as stated, but the zeros flag is false for min_zeros >= 2
\* (the default is 10) and on the empty series; with min_zeros = 1 the one
\* reading of a series is flagged iff its value is 0.
C12_ShortSeriesNeverFail ==
    /\ ShortSeriesNeverFail(MinZerosArgs \ {1})
    /\ (ShortSeries /\ call.op = "detect_consecutive_zeros" /\ call.min_zeros = 1) =>
          \A i \in 1..Len(df.rows) :
              Returned(i, "qc_zeros") <=> FEq(df.rows[i]["valor"], Num(0))

\* detect_consecutive_zeros with min_zeros = 2 has run on the one reading 0
\* and has not flagged it.
C12_Witness ==
    /\ ShortSeries
    /\ Len(df.rows) = 1
    /\ FEq(df.rows[1]["valor"], Num(0))
    /\ call.op = "detect_consecutive_zeros"
    /\ call.min_zeros = 2
    /\ result.status = "ok"
    /\ ~Returned(1, "qc_zeros")

\* The five checks, the flag column each one writes and the columns it reads.
FlagOf ==
    ("detect_impossible_values" :> "qc_impossible") @@
    ("detect_extreme_values" :> "qc_extreme") @@
    ("detect_stuck_sensor" :> "qc_stuck") @@
    ("detect_sudden_changes" :> "qc_sudden") @@
    ("detect_consecutive_zeros" :> "qc_zeros")
Reads(op) == IF op = "detect_sudden_changes" THEN {"tiempo", "valor"} ELSE {"valor"}

\* C13: on a table that lacks the value column or the timestamp column each
\* of the five checks returns normally, and a check that lacks a column it
\* reads raises no flag.
C13_MissingColumnNoFlag ==
    (/\ ~({"tiempo", "valor"} \subseteq df.cols)
     /\ call.op \in DOMAIN FlagOf
     /\ call.op = "detect_extreme_values" => call.method \in {"range", "iqr"}) =>
        /\ result.status = "ok"
        /\ ~(Reads(call.op) \subseteq df.cols) => NoneFlagged(FlagOf[call.op])

\* The key of the summary that counts each column.
SummaryKeys ==
    ("passed" :> "qc_passed") @@
    ("impossible" :> "qc_impossible") @@
    ("extreme" :> "qc_extreme") @@
    ("stuck" :> "qc_stuck") @@
    ("sudden" :> "qc_sudden") @@
    ("zeros" :> "qc_zeros")
FlaggedRows(col) == {i \in 1..Len(df.rows) : col \in df.cols /\ df.rows[i][col]}

\* C15: get_qc_summary returns total = the number of readings, and passed,
\* impossible, extreme, stuck, sudden, zeros = the number of readings whose
\* flag of that name is true; a call leaves the series as it was, and a
\* repeated call returns the same counts.
C15_SummaryIsPureCount ==
    /\ [](call.op = "get_qc_summary" =>
            /\ result.status = "ok"
            /\ DOMAIN result.value = {"total"} \cup DOMAIN SummaryKeys
            /\ result.value.total = Len(df.rows)
            /\ \A k \in DOMAIN SummaryKeys :
                  result.value[k] = Cardinality(FlaggedRows(SummaryKeys[k])))
    /\ [][call'.op = "get_qc_summary" =>
            /\ df' = df
            /\ call.op = "get_qc_summary" => result' = result]_vars

\* A second call on an annotated series of two readings, one passed and one
\* flagged impossible.
C15_Witness ==
    /\ call.op = "get_qc_summary"
    /\ call.nth >= 2
    /\ result.status = "ok"
    /\ result.value.total = 2
    /\ result.value.passed = 1
    /\ result.value.impossible = 1

-----------------------------------------------------------------------------
(* The method parameters: detect_extreme_values and aggregate_daily on     *)
(* raw, empty, column-less and already annotated tables.                   *)

MaxLenMethod == 2

MethodGaps == {SecondsPerHour, 2 * SecondsPerDay}
MethodValues == {NaN, Num(0), Num(999)}
AggFuncArgs == AggFuncs \cup {"median"}

InitMethod ==
    /\ variable_name = K_temperatura
    /\ \/ \E steps \in SeqsUpTo(MethodGaps \X MethodValues, MaxLenMethod),
             cols \in SUBSET {"tiempo", "valor"} :
             df = Project(Table(FromSteps(steps)), cols)
       \/ \E values \in DecimalReadings : df = Table(Hourly(values))
    /\ call = NoCall
    /\ result = NoResult
    /\ Offline

CallAggregateDaily ==
    /\ call = NoCall
    /\ \E agg_func \in AggFuncArgs :
          /\ call' = [op |-> "aggregate_daily", agg_func |-> agg_func]
          /\ result' = aggregate_daily(df, agg_func)
    /\ UNCHANGED <<df, variable_name, ioVars>>

NextMethod == CallDetectExtreme \/ CallAggregateDaily \/ Rebind

SpecMethod == InitMethod /\ [][NextMethod]_vars

\* C14: an invalid method parameter always ends in an error: aggregate_daily
\* with an agg_func other than mean, sum, min, max, and detect_extreme_values
\* with a method other than range or iqr, never return normally, whatever
\* the table.
C14_InvalidMethodIsAnError ==
    /\ (call.op = "aggregate_daily" /\ call.agg_func \notin AggFuncs) =>
          result.status # "ok"
    /\ (call.op = "detect_extreme_values" /\ call.method \notin {"range", "iqr"}) =>
          result.status # "ok"

-----------------------------------------------------------------------------
(* The two range tables side by side (checked under Spec).                 *)

\* The kinds that have both a physical and an expected range.
BothRanges == DOMAIN PHYSICAL_RANGES \cap DOMAIN EXPECTED_RANGES

\* C16: for every kind with both ranges (temperatura, humedad, precipitacion,
\* viento and radiacion among them) the expected range lies within the
\* physical range, so every reading that apply_all_checks flags impossible
\* is flagged extreme too; 999.0 in a temperatura series is flagged both.
C16_ImpossibleImpliesExtreme ==
    /\ {K_temperatura, K_humedad, K_precipitacion, K_viento, K_radiacion} \subseteq BothRanges
    /\ \A k \in BothRanges :
          /\ FLe(PHYSICAL_RANGES[k].min, EXPECTED_RANGES[k].min)
          /\ FLe(EXPECTED_RANGES[k].max, PHYSICAL_RANGES[k].max)
    /\ (call.op = "apply_all_checks" /\ Kind \in BothRanges) =>
          /\ result.status = "ok"
          /\ SameReadings
          /\ \A i \in 1..Len(df.rows) :
                /\ Returned(i, "qc_impossible") => Returned(i, "qc_extreme")
                /\ (Kind = K_temperatura /\ df.rows[i]["valor"] = Num(999)) =>
                      Returned(i, "qc_impossible") /\ Returned(i, "qc_extreme")

\* A temperatura series in which 999.0 is flagged impossible and extreme next
\* to a reading that is flagged extreme only.
C16_Witness ==
    /\ call.op = "apply_all_checks"
    /\ Kind = K_temperatura
    /\ result.status = "ok"
    /\ \E i, j \in 1..Len(df.rows) :
          /\ df.rows[i]["valor"] = Num(999)
          /\ Returned(i, "qc_impossible") /\ Returned(i, "qc_extreme")
          /\ Returned(j, "qc_extreme") /\ ~Returned(j, "qc_impossible")

-----------------------------------------------------------------------------
(* APIClient._request: one call, its HTTP attempts one by one.             *)

MaxRetry == 3

Bodies == {JWrapped("stations"), JWrapped("samples"), JDict("test"), JList("rows")}
RequestErrors == {"HTTPError", "ConnectionError", "Timeout"}

\* The tables of the other modules play no part in a request.
NoTable == [cols |-> {}, rows |-> <<>>]

InitRequest ==
    /\ df = NoTable
    /\ variable_name = <<>>
    /\ call = NoCall
    /\ result = NoResult
    /\ Offline

\* _request(endpoint, retry=n) is entered: for attempt in range(retry)
CallRequest ==
    /\ call = NoCall
    /\ \E retry \in 0..MaxRetry : call' = [op |-> "_request", retry |-> retry]
    /\ attempt' = 0
    /\ UNCHANGED <<df, variable_name, result, cache_file, saved, upstream, http, qc_flags, compensated>>

InLoop == call.op = "_request" /\ result = NoResult

\* session.get answers, raise_for_status passes, the JSON body is returned.
AttemptSucceeds ==
    /\ InLoop
    /\ attempt < call.retry
    /\ \E body \in Bodies :
          /\ http' = Append(http, [outcome |-> "ok", body |-> body])
          /\ result' = Value(Unwrap(body))
    /\ UNCHANGED <<df, variable_name, call, cache_file, saved, upstream, attempt, qc_flags, compensated>>

\* session.get or raise_for_status raises: sleep 2 ** attempt seconds and go
\* round again, or re-raise on the last attempt.
AttemptFails ==
    /\ InLoop
    /\ attempt < call.retry
    /\ \E error \in RequestErrors :
          /\ http' = Append(http, [outcome |-> error, body |-> JNone])
          /\ IF MoreAttempts(attempt, call.retry)
             THEN attempt' = attempt + 1 /\ result' = result
             ELSE attempt' = attempt /\ result' = Raised(error)
    /\ UNCHANGED <<df, variable_name, call, cache_file, saved, upstream, qc_flags, compensated>>

\* range(retry) is used up without a return or a raise: return None
LoopExhausted ==
    /\ InLoop
    /\ attempt >= call.retry
    /\ result' = Value(JNone)
    /\ UNCHANGED <<df, variable_name, call, ioVars>>

NextRequest == CallRequest \/ AttemptSucceeds \/ AttemptFails \/ LoopExhausted

SpecRequest == InitRequest /\ [][NextRequest]_vars

Failed(i) == http[i].outcome # "ok"
Requested == call.op = "_request" /\ call.retry >= 1

\* C17: _request(endpoint, retry=n) with n >= 1 issues its HTTP attempts one
\* after another and never after it has returned or raised; it never issues
\* more than n; an attempt is followed by another only if it failed; it
\* returns only the payload of a successful attempt, the last one issued; it
\* raises only the error of the n-th failed attempt.
C17_RetryAtMostNAttempts ==
    /\ [](Requested =>
            /\ Len(http) <= call.retry
            /\ \A i \in 1..(Len(http) - 1) : Failed(i)
            /\ result.status \in {"none", "ok", "RequestException"}
            /\ result.status = "none" =>
                  /\ Len(http) < call.retry
                  /\ \A i \in 1..Len(http) : Failed(i)
            /\ result.status = "ok" =>
                  /\ Len(http) >= 1
                  /\ ~Failed(Len(http))
                  /\ result.value = Unwrap(http[Len(http)].body)
            /\ result.status = "RequestException" =>
                  /\ Len(http) = call.retry
                  /\ \A i \in 1..Len(http) : Failed(i)
                  /\ result.error = http[Len(http)].outcome)
    /\ [][\/ http' = http
           \/ /\ InLoop
              /\ Len(http') = Len(http) + 1
              /\ SubSeq(http', 1, Len(http)) = http]_vars

\* The scenario of the test: retry=2, a failure followed by a success; two
\* requests were issued and the payload of the second is returned.
C17_Witness ==
    /\ call.op = "_request" /\ call.retry = 2
    /\ Len(http) = 2
    /\ http[1].outcome = "HTTPError"
    /\ http[2].outcome = "ok" /\ http[2].body = JDict("test")
    /\ result = Value(JDict("test"))

-----------------------------------------------------------------------------
(* The cache: tables of daily readings saved one after another, and        *)
(* requests for a range of days.                                           *)

MaxSaves == 2

CacheDays == 0..3
CacheValues == {Num(1), Num(2)}

\* Midnight of day d.
Midnight(d) == d * SecondsPerDay

\* A download of the days a..b: a reading on each of them, or, when the
\* station was down in between, on the first and the last only.
Download(a, b, v, dense) ==
    Table(SelectSeq([k \in 1..(b - a + 1) |-> Row(Midnight(a + k - 1), v)],
                    LAMBDA r : dense \/ r["tiempo"] \in {Midnight(a), Midnight(b)}))

SaveTables ==
    {Table(<<>>)} \cup
    {Download(a, b, v, dense) : a \in CacheDays, b \in CacheDays, v \in CacheValues,
                                dense \in BOOLEAN}

InitCache ==
    /\ df = Table(<<>>)
    /\ variable_name = <<>>
    /\ call = NoCall
    /\ result = NoResult
    /\ Offline

\* cache.save_data(station, variable, df)
CallSaveData ==
    /\ Len(saved) < MaxSaves
    /\ \E t \in SaveTables :
          /\ df' = t
          /\ cache_file' = cache_save_data(cache_file, t)
          /\ saved' = IF Empty(t) \/ cache_file = NoDirectory THEN saved
                       ELSE Append(saved, <<MinOf(Col(t, "tiempo")), MaxOf(Col(t, "tiempo")),
                                            t.rows>>)
    /\ call' = [op |-> "CacheManager.save_data"]
    /\ result' = ReturnedNone
    /\ UNCHANGED <<variable_name, upstream, attempt, http, qc_flags, compensated>>

\* cache.get_data(station, variable, start_date, end_date)
CallCacheGetData ==
    /\ \E a \in CacheDays, b \in CacheDays :
          /\ a <= b
          /\ call' = [op |-> "CacheManager.get_data",
                      start_date |-> Midnight(a), end_date |-> Midnight(b)]
          /\ result' = cache_get_data(cache_file, Midnight(a), Midnight(b))
    /\ UNCHANGED <<df, variable_name, ioVars>>

\* cache.clear_cache(): nothing written so far is left.
CallClearCache ==
    /\ cache_file' = clear_cache(cache_file)
    /\ saved' = <<>>
    /\ call' = [op |-> "CacheManager.clear_cache"]
    /\ result' = ReturnedNone
    /\ UNCHANGED <<df, variable_name, upstream, attempt, http, qc_flags, compensated>>

\* CacheManager(cache_dir): a manager is made again over the same directory.
CallCacheManager ==
    /\ cache_file = NoDirectory
    /\ cache_file' = CacheManager_init(cache_file)
    /\ call' = [op |-> "CacheManager.__init__"]
    /\ result' = ReturnedNone
    /\ UNCHANGED <<df, variable_name, saved, upstream, attempt, http, qc_flags, compensated>>

NextCache == CallSaveData \/ CallCacheGetData \/ CallClearCache \/ CallCacheManager

SpecCache == InitCache /\ [][NextCache]_vars

\* Some table written by save_data spans the instant x.
InSavedRange(x) == \E k \in 1..Len(saved) : saved[k][1] <= x /\ x <= saved[k][2]

\* C18: CacheManager.get_data(start, end) returns a table only if every day
\* of [start, end] lies inside the span of a table that save_data wrote
\* before, and then only readings with start <= tiempo <= end; otherwise it
\* returns None.
C18_HitOnlyIfRangeWasSaved ==
    call.op = "CacheManager.get_data" =>
        \/ result = ReturnedNone
        \/ /\ result.status = "ok"
           /\ \A d \in CacheDays :
                 (call.start_date <= Midnight(d) /\ Midnight(d) <= call.end_date) =>
                     InSavedRange(Midnight(d))
           /\ \A i \in 1..Len(result.df.rows) :
                 /\ call.start_date <= Returned(i, "tiempo")
                 /\ Returned(i, "tiempo") <= call.end_date

-----------------------------------------------------------------------------
(* The downloader: requests for days of one station/variable, raw or       *)
(* aggregated, one after another on one cache.                             *)

MaxGets == 2

UpstreamTimes == <<0, 43200, 86400>>
UpstreamValues == {Num(10)}
DownloadVariables == {VAR_TEMPERATURA_MEDIA, VAR_PRECIPITACION, VAR_HUMEDAD_RELATIVA}
DownloadDays == 0..1
Aggregations == {NoAggregation, "raw", "D", "H"}

\* The readings held upstream: at each time of the grid one value or none.
Upstreams ==
    {LET idx == SelectSeq([i \in 1..Len(UpstreamTimes) |-> i], LAMBDA i : f[i] # NaN)
     IN [k \in 1..Len(idx) |-> Row(UpstreamTimes[idx[k]], f[idx[k]])] :
        f \in [1..Len(UpstreamTimes) -> UpstreamValues \cup {NaN}]}

InitDownload ==
    /\ df = NoTable
    /\ variable_name \in DownloadVariables
    /\ call = NoCall
    /\ result = NoResult
    /\ cache_file = Missing
    /\ saved = <<>>
    /\ upstream \in Upstreams \cup {Hourly(values) : values \in {v \in DecimalReadings : Len(v) = 3}}
    /\ attempt = 0
    /\ http = <<>>
    /\ qc_flags = <<>>
    /\ compensated \in BOOLEAN

\* The default of the retry argument of APIClient._request, which
\* APIClient.get_data leaves out.
DefaultRetry == 3

\* What the transport raises while the API cannot be reached.
DownloadErrors == {"ConnectionError", "HTTPError"}

DownloaderCalls == {"DataDownloader.get_data", "DataDownloader.bulk_download"}

\* No call of the downloader is under way.
DownloaderIdle == call = NoCall \/ result # NoResult
\* A call of the downloader waits for the API: the cache gave nothing.
Downloading == call # NoCall /\ call.op \in DownloaderCalls /\ result = NoResult

\* What the caller of the call at hand gets for what get_data returns:
\* bulk_download puts a non-empty table in its dictionary under the key of
\* the station and the variable, and leaves an empty one out.
BulkResults(tables) == [status |-> "ok", results |-> tables]
Delivered(op, r) ==
    IF op = "DataDownloader.get_data" THEN r
    ELSE IF Empty(r.df) THEN BulkResults(<<>>) ELSE BulkResults(<<r.df>>)

\* What the caller gets when get_data raises: bulk_download logs the error
\* and goes on to the next station and variable.
Failed_(op, error) ==
    IF op = "DataDownloader.get_data" THEN Raised(error) ELSE BulkResults(<<>>)

\* The call is entered and the cache is asked (data.py:89-97): a hit is
\* returned at once, a miss goes on to the API.
Enter(op, start_dt, end_dt, use_cache, aggregation) ==
    /\ DownloaderIdle
    /\ LET nth == IF call = NoCall THEN 1 ELSE call.nth + 1 IN
       /\ nth <= MaxGets
       /\ call' = [op |-> op, nth |-> nth, start_date |-> start_dt, end_date |-> end_dt,
                   use_cache |-> use_cache, aggregation |-> aggregation]
    /\ result' = IF CacheHit(cache_file, start_dt, end_dt, use_cache, aggregation)
                 THEN Delivered(op, cache_get_data(cache_file, start_dt, end_dt))
                 ELSE NoResult
    /\ attempt' = 0
    /\ UNCHANGED <<df, variable_name, cache_file, saved, upstream, http, qc_flags, compensated>>

\* downloader.get_data(station, variable, start_date, end_date, use_cache,
\* aggregation)
CallGetData ==
    \E a \in DownloadDays, b \in DownloadDays, use_cache \in BOOLEAN,
       aggregation \in Aggregations :
       /\ a <= b
       /\ Enter("DataDownloader.get_data", Midnight(a), Midnight(b), use_cache, aggregation)

\* downloader.bulk_download([station], [variable], start_date, end_date): one
\* get_data call with use_cache and aggregation at their defaults.
CallBulkDownload ==
    \E a \in DownloadDays, b \in DownloadDays :
       /\ a <= b
       /\ Enter("DataDownloader.bulk_download", Midnight(a), Midnight(b), TRUE, NoAggregation)

\* The request of api.get_data fails (api_client.py:157-166): sleep
\* 2 ** attempt seconds and ask again, or raise on the last attempt; nothing
\* is saved then.
DownloadAttemptFails ==
    /\ Downloading
    /\ \E error \in DownloadErrors :
          /\ http' = Append(http, [outcome |-> error, body |-> JNone])
          /\ IF MoreAttempts(attempt, DefaultRetry)
             THEN attempt' = attempt + 1 /\ result' = NoResult
             ELSE attempt' = attempt /\ result' = Failed_(call.op, error)
    /\ UNCHANGED <<df, variable_name, call, cache_file, saved, upstream, qc_flags, compensated>>

\* The call ends with what the download branch gave: the caller gets the
\* result, and a table handed to save_data (raw and not empty) joins the
\* history, whether or not it changes the file.
DownloadEnds(out) ==
    /\ result' = Delivered(call.op, out.result)
    /\ cache_file' = out.file
    /\ saved' = IF ~IsRaw(call.aggregation) \/ Empty(out.result.df) \/ cache_file = NoDirectory
                 THEN saved
                 ELSE Append(saved, <<MinOf(Col(out.result.df, "tiempo")),
                                      MaxOf(Col(out.result.df, "tiempo")),
                                      out.result.df.rows>>)

\* The request is answered with the readings held upstream: they are parsed,
\* aggregated or saved, and returned (data.py:108-137).
DownloadAttemptSucceeds ==
    /\ Downloading
    /\ http' = Append(http, [outcome |-> "ok", body |-> JList("data")])
    /\ DownloadEnds(Downloaded(cache_file, upstream, call.start_date, call.end_date,
                                variable_name, call.aggregation))
    /\ UNCHANGED <<df, variable_name, call, upstream, attempt, qc_flags, compensated>>

NextDownload ==
    \/ CallGetData
    \/ CallBulkDownload
    \/ DownloadAttemptFails
    \/ DownloadAttemptSucceeds

SpecDownload == InitDownload /\ [][NextDownload]_vars

\* What the call at hand returns when nothing is in the cache.
ColdResult ==
    downloader_get_data(Missing, upstream, call.start_date, call.end_date, variable_name,
                        call.use_cache, call.aggregation).result

\* C19: get_data with an aggregation other than None or 'raw' returns the
\* aggregated data whatever the cache holds: what the call returns is what
\* the same call returns on an empty cache.
C19_AggregatedWhateverTheCache ==
    (/\ call.op = "DataDownloader.get_data"
     /\ ~IsRaw(call.aggregation)
     /\ result.status = "ok") => result = ColdResult

-----------------------------------------------------------------------------
(* The thresholds of the temporal-consistency test: series in order of     *)
(* time whose readings follow one another by half an hour or an hour, the   *)
(* two mixed freely, of every kind.                                         *)

MaxLenThreshold == 4

ThresholdGaps == {SecondsPerHour \div 2, SecondsPerHour}
ThresholdValues == {Num(20), Num(25), Num(35), Num(70), Num(600), Num(1020)}
\* The values of the readings after the second.
ThresholdTail == {Num(20), Num(25)}
ThresholdNames == Names \cup {K_precipitacion, K_presion, K_velocidad_viento}

\* Readings that start at time 0 and follow one another by the given gaps.
RECURSIVE Spaced(_, _)
Spaced(values, gaps) ==
    IF Len(values) = 1 THEN <<Row(0, values[1])>>
    ELSE LET before == Spaced(SubSeq(values, 1, Len(values) - 1),
                              SubSeq(gaps, 1, Len(gaps) - 1))
         IN Append(before, Row(before[Len(before)]["tiempo"] + gaps[Len(gaps)],
                               values[Len(values)]))

InitThreshold ==
    /\ variable_name \in ThresholdNames
    /\ \E n \in 2..MaxLenThreshold :
          \E head \in [1..2 -> ThresholdValues], tail \in [1..(n - 2) -> ThresholdTail],
             gaps \in [1..(n - 1) -> ThresholdGaps] :
              df = Table(Spaced(head \o tail, gaps))
    /\ call = NoCall
    /\ result = NoResult
    /\ Offline

NextThreshold == CallDetectSudden

SpecThreshold == InitThreshold /\ [][NextThreshold]_vars

\* The k-th smallest of the elapsed times of the caller's series, in
\* seconds, by rank: fewer than k of them are smaller and at least k of
\* them are not greater.
KthElapsed(k) ==
    LET gaps == 2..Len(df.rows) IN
    Elapsed(CHOOSE i \in gaps :
                /\ Cardinality({j \in gaps : Elapsed(j) < Elapsed(i)}) < k
                /\ Cardinality({j \in gaps : Elapsed(j) <= Elapsed(i)}) >= k)

\* The median of the elapsed times is at most half an hour: the middle one
\* of an odd number of them is, or the two middle ones of an even number of
\* them are an hour together at most.
MedianAtMostHalfHour ==
    LET m == Len(df.rows) - 1 IN
    IF m % 2 = 1 THEN 2 * KthElapsed((m + 1) \div 2) <= SecondsPerHour
    ELSE KthElapsed(m \div 2) + KthElapsed((m \div 2) + 1) <= SecondsPerHour

\* The threshold the kind of the caller's series is said to have.
StatedThreshold ==
    LET kind == NormalizeVariableName(variable_name) IN
    CASE kind = K_temperatura -> (IF MedianAtMostHalfHour THEN Num(4) ELSE Num(10))
      [] kind = K_humedad -> Num(45)
      [] kind = K_presion -> Num(10)
      [] kind = K_radiacion -> Num(555)
      [] kind = K_viento -> Num(10)
      [] OTHER -> Num(999)

\* The series [(t0, 20.0), (t0 + 1h, 35.0)].
TwentyThenThirtyFive ==
    df.rows = <<Row(0, Num(20)), Row(SecondsPerHour, Num(35))>>

\* C20: without a threshold override detect_sudden_changes flags a reading
\* iff its rate of change exceeds the threshold of the kind: for temperatura
\* 4 per hour when the median elapsed time is at most half an hour and 10
\* otherwise, 45 for humedad, 10 for presion, 555 for radiacion, 10 for
\* viento and 999 for any other kind; in the temperatura series
\* [(t0, 20.0), (t0 + 1h, 35.0)] the threshold is 10 and the second reading,
\* and only the second, is flagged.
C20_ThresholdOfTheKind ==
    (call.op = "detect_sudden_changes" /\ call.max_change_per_hour = None) =>
        /\ result.status = "ok"
        /\ CallThreshold = StatedThreshold
        /\ \A i \in 1..Len(df.rows) :
              Returned(i, "qc_sudden") <=> (i > 1 /\ RateExceeds(i, StatedThreshold))
        /\ (NormalizeVariableName(variable_name) = K_temperatura /\ TwentyThenThirtyFive) =>
              /\ StatedThreshold = Num(10)
              /\ ~Returned(1, "qc_sudden")
              /\ Returned(2, "qc_sudden")

\* The call on a temperatura series whose elapsed times are half an hour,
\* half an hour and an hour: their median is half an hour while their mean,
\* their maximum and the last of them are more, the threshold is 4 and the
\* last reading, 5 above the one an hour before it, is flagged.
C20_Witness ==
    /\ call.op = "detect_sudden_changes"
    /\ call.max_change_per_hour = None
    /\ variable_name = K_temperatura
    /\ df.rows = <<Row(0, Num(20)), Row(SecondsPerHour \div 2, Num(20)),
                   Row(SecondsPerHour, Num(20)), Row(2 * SecondsPerHour, Num(25))>>
    /\ result.status = "ok"
    /\ StatedThreshold = Num(4)
    /\ Returned(4, "qc_sudden")

-----------------------------------------------------------------------------
(* The persistence test, reading by reading.                               *)

\* Reading i is "same": it differs from the preceding reading by at most the
\* tolerance of the call (a missing value is the same as nothing).
SameAsPrevious(i) ==
    /\ i > 1
    /\ IsNum(df.rows[i]["valor"]) /\ IsNum(df.rows[i-1]["valor"])
    /\ FLe(FAbs(FSub(df.rows[i]["valor"], df.rows[i-1]["valor"])), call.tolerance)

\* The length of the maximal run of consecutive "same" readings around i.
SameRunLength(i) ==
    LET lo == CHOOSE a \in 1..i :
                  /\ \A j \in a..i : SameAsPrevious(j)
                  /\ ~SameAsPrevious(a - 1)
        hi == CHOOSE b \in i..Len(df.rows) :
                  /\ \A j \in i..b : SameAsPrevious(j)
                  /\ b < Len(df.rows) => ~SameAsPrevious(b + 1)
    IN hi - lo + 1

\* C21 as stated: a reading is flagged stuck iff it is "same" and its maximal
\* run of consecutive "same" readings has length >= min_repeats.
C21_Original ==
    call.op = "detect_stuck_sensor" =>
        /\ result.status = "ok"
        /\ \A i \in 1..Len(df.rows) :
              Returned(i, "qc_stuck") <=>
                  (SameAsPrevious(i) /\ SameRunLength(i) >= call.min_repeats)

\* C21 amended: a reading is flagged stuck iff it is "same" and its maximal
\* run of consecutive "same" readings has length >= min_repeats - 1, that is
\* the run and the reading it repeats are min_repeats readings or more.
C21_StuckIffInLongSameRun ==
    call.op = "detect_stuck_sensor" =>
        /\ result.status = "ok"
        /\ \A i \in 1..Len(df.rows) :
              Returned(i, "qc_stuck") <=>
                  (SameAsPrevious(i) /\ SameRunLength(i) >= call.min_repeats - 1)

\* A call with min_repeats >= 3 on a series with a flagged run of exactly
\* min_repeats - 1 "same" readings and a shorter run that is not flagged.
C21_Witness ==
    /\ call.op = "detect_stuck_sensor"
    /\ call.min_repeats >= 3
    /\ result.status = "ok"
    /\ \E i, j \in 1..Len(df.rows) :
          /\ SameAsPrevious(i) /\ SameRunLength(i) = call.min_repeats - 1
          /\ Returned(i, "qc_stuck")
          /\ SameAsPrevious(j) /\ SameRunLength(j) < call.min_repeats - 1
          /\ ~Returned(j, "qc_stuck")

-----------------------------------------------------------------------------
(* The five checks one at a time, in any order, each on the table the      *)
(* check before it returned; the caller's timestamps are datetimes or, when *)
(* all are on the hour, texts.                                              *)

MaxLenOrder == 1

OrderValues == {Num(0), Num(45), Num(999)}
OrderGaps == {900, SecondsPerHour}
OrderNames == {K_temperatura, K_lluvia}

ColumnOf ==
    ("detect_impossible_values" :> "qc_impossible") @@
    ("detect_extreme_values" :> "qc_extreme") @@
    ("detect_stuck_sensor" :> "qc_stuck") @@
    ("detect_sudden_changes" :> "qc_sudden") @@
    ("detect_consecutive_zeros" :> "qc_zeros")

\* The month of 2024 that holds the day d of the year, counted from 0.
MonthOfDay(d) ==
    CHOOSE m \in 1..12 :
        DaysBeforeMonth(2024, m) <= d /\ d < DaysBeforeMonth(2024, m) + DaysInMonth(2024, m)

\* The text 'YYYY-MM-DD HH:00:00' of a datetime of 2024 that is on the hour.
WrittenOn(d, m, hour) ==
    ((2024 * 100 + m) * 100 + (d - DaysBeforeMonth(2024, m) + 1)) * 100 + hour

Written(time) ==
    WrittenOn(time \div SecondsPerDay, MonthOfDay(time \div SecondsPerDay),
              (time % SecondsPerDay) \div SecondsPerHour)

OnTheHour(rows) == \A i \in 1..Len(rows) : rows[i]["tiempo"] % SecondsPerHour = 0

\* The readings with their timestamps as texts.
AsText(rows) == [i \in 1..Len(rows) |-> [rows[i] EXCEPT !["tiempo"] = Written(@)]]

\* The caller holds a series and has run none of the checks on it yet.
InitOrder ==
    /\ variable_name \in OrderNames
    /\ \E steps \in SeqsUpTo(OrderGaps \X OrderValues, MaxLenOrder), n \in TailLens,
          text \in BOOLEAN :
          /\ Len(steps) > 0 => steps[1][1] = SecondsPerHour
          /\ text => OnTheHour(FromSteps(steps))
          /\ df = Table(IF text THEN AsText(WithZeroTail(FromSteps(steps), n))
                                 ELSE WithZeroTail(FromSteps(steps), n))
    /\ call = [op |-> "checks", input |-> df, passed |-> df, done |-> {}, last |-> "none"]
    /\ result = NoResult
    /\ Offline

\* df = df.copy() (qc.py:98, 143, 195, 244, 311, 445): the operation assigns
\* the columns of a copy, and the table the caller passed in is after the
\* call what it was before.
AfterCall(passed, returned) == passed

\* df = qc.<check>(df) for a check not run yet: out is what the check returns.
RunCheck(check, out) ==
    /\ call.op = "checks"
    /\ check \notin call.done
    /\ out.status = "ok"
    /\ result' = out
    /\ df' = out.df
    /\ call' = [call EXCEPT !.done = @ \cup {check}, !.last = check,
                            !.passed = AfterCall(df, out.df)]
    /\ UNCHANGED <<variable_name, ioVars>>

RunDetectImpossible ==
    RunCheck("detect_impossible_values", detect_impossible_values(df, variable_name, "valor"))
RunDetectExtreme ==
    RunCheck("detect_extreme_values", detect_extreme_values(df, variable_name, "valor", "range"))
RunDetectStuck ==
    RunCheck("detect_stuck_sensor",
             detect_stuck_sensor(df, "valor", DefaultMinRepeats, DefaultTolerance))
RunDetectSudden ==
    RunCheck("detect_sudden_changes",
             detect_sudden_changes(df, variable_name, "valor", "tiempo", None))
RunDetectZeros ==
    RunCheck("detect_consecutive_zeros", detect_consecutive_zeros(df, "valor", DefaultMinZeros))

\* qc.apply_all_checks(df, variable_name) on the table as annotated so far;
\* the caller keeps the table it had.
RunApplyAllChecks ==
    /\ call.op = "checks"
    /\ result' = apply_all_checks(df, variable_name, "valor", "tiempo")
    /\ call' = [call EXCEPT !.last = "apply_all_checks",
                            !.passed = AfterCall(df, result'.df)]
    /\ UNCHANGED <<df, variable_name, ioVars>>

NextOrder ==
    \/ RunApplyAllChecks
    \/ RunDetectImpossible
    \/ RunDetectExtreme
    \/ RunDetectStuck
    \/ RunDetectSudden
    \/ RunDetectZeros

SpecOrder == InitOrder /\ [][NextOrder]_vars

\* What apply_all_checks returns on the series the caller started from.
InOrder == apply_all_checks(call.input, variable_name, "valor", "tiempo")

\* C22: the five checks commute: run on one series in any order, each on the
\* table returned by the one before, they give every reading the flags that
\* apply_all_checks gives it; every flag attached so far is already the one
\* of apply_all_checks.
C22_ChecksCommute ==
    call.op = "checks" =>
        \A all \in {InOrder} :
            /\ all.status = "ok"
            /\ Len(df.rows) = Len(all.df.rows)
            /\ df.cols = call.input.cols \cup {ColumnOf[c] : c \in call.done}
            /\ \A c \in call.done : Col(df, ColumnOf[c]) = Col(all.df, ColumnOf[c])

\* All five checks done on a series where three different flags are raised.
C22_Witness ==
    /\ call.op = "checks"
    /\ call.done = DOMAIN ColumnOf
    /\ \E i, j, k \in 1..Len(df.rows) :
          /\ df.rows[i]["qc_impossible"]
          /\ df.rows[j]["qc_sudden"]
          /\ df.rows[k]["qc_stuck"]

\* The columns an operation assigns.
OwnColumns(op) ==
    IF op = "apply_all_checks" THEN FlagColumns \cup {"qc_passed"} ELSE {ColumnOf[op]}

\* The operations that convert the time column of a table of two rows or
\* more: detect_sudden_changes, and apply_all_checks which runs it.
Converts(op, t) ==
    op \in {"detect_sudden_changes", "apply_all_checks"} /\ Len(t.rows) >= 2

\* What C23 says of a step, the columns of Kept being those the operation
\* op returns as they were passed in: the series the caller started from
\* and the table passed in stay as they were, the table returned has the
\* same rows in the same order, its columns are those passed in and the
\* operation's own flag columns, and the state of the QualityControl object
\* does not change.
PurelyFunctional(Kept(_)) ==
    /\ result'.status = "ok"
    /\ call'.input = call.input
    /\ call'.passed = df
    /\ call'.last = "apply_all_checks" => df' = df
    /\ Len(result'.df.rows) = Len(df.rows)
    /\ result'.df.cols = df.cols \cup OwnColumns(call'.last)
    /\ \A c \in Kept(call'.last) : Col(result'.df, c) = Col(df, c)
    /\ qc_flags' = qc_flags

\* C23 as stated: each check and apply_all_checks is purely functional over
\* its input: the caller's series is left unmodified, the returned series
\* has the same readings in the same order with the same values, a check
\* changes only its own flag column and leaves the flag columns attached
\* earlier unchanged, and no state of the QualityControl object changes.
C23_Original ==
    [][PurelyFunctional(LAMBDA op : df.cols \ OwnColumns(op))]_vars

\* C23 amended: as stated, except that detect_sudden_changes, and with it
\* apply_all_checks, returns a series of two readings or more with its time
\* column converted: every cell of it is a datetime, the one passed in or
\* the one whose text was passed in.  Every other column but the operation's
\* own, and the time column of any other call, is returned as passed in.
C23_PurelyFunctional ==
    [][/\ PurelyFunctional(LAMBDA op : IF Converts(op, df)
                                       THEN df.cols \ (OwnColumns(op) \cup {"tiempo"})
                                       ELSE df.cols \ OwnColumns(op))
       /\ Converts(call'.last, df) =>
              \A i \in 1..Len(df.rows) :
                  /\ ~IsText(result'.df.rows[i]["tiempo"])
                  /\ IF IsText(df.rows[i]["tiempo"])
                     THEN Written(result'.df.rows[i]["tiempo"]) = df.rows[i]["tiempo"]
                     ELSE result'.df.rows[i]["tiempo"] = df.rows[i]["tiempo"]]_vars

\* detect_sudden_changes has just run on a table with text timestamps that
\* carried a raised flag of an earlier check: the flag is still raised, a
\* reading is flagged sudden and the timestamps returned are datetimes.
C23_Witness ==
    /\ call.op = "checks"
    /\ call.last = "detect_sudden_changes"
    /\ result.status = "ok"
    /\ Len(call.passed.rows) >= 2
    /\ \A i \in 1..Len(call.passed.rows) :
          /\ IsText(call.passed.rows[i]["tiempo"])
          /\ ~IsText(Returned(i, "tiempo"))
    /\ \E c \in call.done \ {call.last} :
          \E i \in 1..Len(result.df.rows) : Returned(i, ColumnOf[c])
    /\ \E i \in 1..Len(result.df.rows) : Returned(i, "qc_sudden")

-----------------------------------------------------------------------------
(* The internal consistency of daily temperatures: records of tmin, tmean  *)
(* and tmax, with any of the three columns possibly absent.                *)

MaxLenConsistency == 1

DailyTemperatures == {NaN, Num(5), Num(10), Num(15)}
DailyColumns == {"tmin", "tmean", "tmax"}

InitConsistency ==
    /\ variable_name = K_temperatura
    /\ \E rows \in SeqsUpTo([DailyColumns -> DailyTemperatures], MaxLenConsistency),
          cols \in SUBSET DailyColumns :
          df = Project([cols |-> DailyColumns, rows |-> rows], cols)
    /\ call = NoCall
    /\ result = NoResult
    /\ Offline

CallCheckTemperature ==
    /\ call = NoCall
    /\ call' = [op |-> "check_internal_consistency_temperature"]
    /\ result' = check_internal_consistency_temperature(df, "tmin", "tmean", "tmax")
    /\ UNCHANGED <<df, variable_name, ioVars>>

NextConsistency == CallCheckTemperature

SpecConsistency == InitConsistency /\ [][NextConsistency]_vars

\* tmax > tmean > tmin holds for record i (it does not when a value is
\* missing).
Ordered(i) ==
    LET r == df.rows[i] IN
    /\ IsNum(r["tmin"]) /\ IsNum(r["tmean"]) /\ IsNum(r["tmax"])
    /\ r["tmax"].n > r["tmean"].n
    /\ r["tmean"].n > r["tmin"].n

\* Record i holds all three temperatures.
Complete(i) == \A c \in DailyColumns : IsNum(df.rows[i][c])

\* C24 as stated: a record is flagged iff NOT (tmax > tmean > tmin); with a
\* column missing no record is flagged and the call does not fail.
C24_Original ==
    call.op = "check_internal_consistency_temperature" =>
        /\ result.status = "ok"
        /\ Len(result.df.rows) = Len(df.rows)
        /\ \A i \in 1..Len(df.rows) :
              Returned(i, "qc_temp_consistency") <=>
                  (DailyColumns \subseteq df.cols /\ ~Ordered(i))

\* Two temperatures of record i are present and out of order: the one that
\* should be higher is not.
OutOfOrder(i) ==
    \E p \in {<<"tmax", "tmean">>, <<"tmean", "tmin">>, <<"tmax", "tmin">>} :
        /\ IsNum(df.rows[i][p[1]]) /\ IsNum(df.rows[i][p[2]])
        /\ df.rows[i][p[1]].n <= df.rows[i][p[2]].n

\* C24 amended: a record is flagged iff two of its temperatures are present
\* and out of order (tmax <= tmean, tmean <= tmin or tmax <= tmin); for a
\* record holding all three that is iff NOT (tmax > tmean > tmin), so one
\* with tmax = tmean or tmean = tmin is flagged, while a record with a
\* missing temperature and no such pair is not; with a column missing no
\* record is flagged and the call does not fail.
C24_InconsistentIffOutOfOrder ==
    call.op = "check_internal_consistency_temperature" =>
        /\ result.status = "ok"
        /\ Len(result.df.rows) = Len(df.rows)
        /\ \A i \in 1..Len(df.rows) :
              /\ Returned(i, "qc_temp_consistency") <=>
                    (DailyColumns \subseteq df.cols /\ OutOfOrder(i))
              /\ (DailyColumns \subseteq df.cols /\ Complete(i)) =>
                    (Returned(i, "qc_temp_consistency") <=> ~Ordered(i))

\* A call on a record with tmax = tmean > tmin, which is flagged.
C24_Witness ==
    /\ call.op = "check_internal_consistency_temperature"
    /\ result.status = "ok"
    /\ df.cols = DailyColumns
    /\ \E i \in 1..Len(df.rows) :
          /\ Complete(i)
          /\ df.rows[i]["tmax"] = df.rows[i]["tmean"]
          /\ df.rows[i]["tmean"].n > df.rows[i]["tmin"].n
          /\ Returned(i, "qc_temp_consistency")

-----------------------------------------------------------------------------
(* Missing values under the combinator and the clean-only filter.          *)

\* The timestamps of the readings of a table whose value is missing.
MissingReadings(t) ==
    LET idx == SelectSeq([i \in 1..Len(t.rows) |-> i], LAMBDA i : IsNaN(t.rows[i]["valor"]))
    IN [k \in 1..Len(idx) |-> t.rows[idx[k]]["tiempo"]]

\* C25: a reading whose value is missing is flagged by none of the five
\* checks and passes apply_all_checks, the reading after it is flagged
\* neither stuck nor sudden, and the clean-only output of
\* apply_quality_control keeps every reading whose value is missing.
C25_MissingValueNeverFlagged ==
    /\ (call.op = "apply_all_checks"
        \/ (call.op = "apply_quality_control" /\ ~call.return_clean_only)) =>
          /\ result.status = "ok"
          /\ SameReadings
          /\ \A i \in 1..Len(df.rows) :
                IsNaN(df.rows[i]["valor"]) =>
                    /\ \A c \in FlagColumns : ~Returned(i, c)
                    /\ Returned(i, "qc_passed")
                    /\ i < Len(df.rows) =>
                          ~Returned(i + 1, "qc_stuck") /\ ~Returned(i + 1, "qc_sudden")
    /\ (call.op = "apply_quality_control" /\ call.return_clean_only) =>
          /\ result.status = "ok"
          /\ MissingReadings(result.df) = MissingReadings(df)

\* A clean-only call that drops a reading and keeps a missing one whose
\* successor starts a run of zeros long enough to be flagged.
C25_Witness ==
    /\ call.op = "apply_quality_control" /\ call.return_clean_only
    /\ result.status = "ok"
    /\ Len(df.rows) > DefaultMinZeros
    /\ IsNaN(df.rows[1]["valor"])
    /\ df.rows[2]["valor"] = Num(0)
    /\ Len(MissingReadings(result.df)) = 1
    /\ Len(result.df.rows) < Len(df.rows)

-----------------------------------------------------------------------------
(* Spikes and the clean-only filter: short series in order of time, and    *)
(* the clean output given to the filter once more.                          *)

MaxLenClean == 3

CleanValues == {Num(10), Num(36), Num(45)}
CleanGaps == {SecondsPerHour, 3 * SecondsPerHour}
CleanNames == {K_temperatura, N_caudal}

InitClean ==
    /\ variable_name \in CleanNames
    /\ \E n \in 1..MaxLenClean :
          \E values \in [1..n -> CleanValues], gaps \in [1..(n - 1) -> CleanGaps] :
              df = Table(Spaced(values, gaps))
    /\ call = NoCall
    /\ result = NoResult
    /\ Offline

\* df = apply_quality_control(df, variable_name): the caller goes on with the
\* clean output.
RebindClean ==
    /\ call.op = "apply_quality_control"
    /\ call.return_clean_only
    /\ result.status = "ok"
    /\ "qc_passed" \notin df.cols
    /\ df' = result.df
    /\ call' = NoCall
    /\ result' = NoResult
    /\ UNCHANGED <<variable_name, ioVars>>

NextClean == CallDetectSudden \/ CallApplyQualityControl \/ RebindClean

SpecClean == InitClean /\ [][NextClean]_vars

\* Readings i-1, i, i+1 are a spike and its return: equally spaced by at most
\* 2 hours, the third with the value of the first.
SpikeAt(i) ==
    /\ 1 < i /\ i < Len(df.rows)
    /\ Elapsed(i) = Elapsed(i + 1)
    /\ Elapsed(i) <= 2 * SecondsPerHour
    /\ df.rows[i + 1]["valor"] = df.rows[i - 1]["valor"]

\* The caller's series is as read, not yet the output of the filter.
AsRead == "qc_passed" \notin df.cols

\* C26: when detect_sudden_changes flags the middle reading of a spike it
\* flags the reading after it too, and the clean-only output of
\* apply_quality_control holds neither of the two.
C26_SpikeCostsTwoReadings ==
    /\ (call.op = "detect_sudden_changes" \/ call.op = "apply_quality_control") =>
          result.status = "ok"
    /\ (call.op = "detect_sudden_changes"
        \/ (call.op = "apply_quality_control" /\ ~call.return_clean_only)) =>
          \A i \in 1..Len(df.rows) :
              (SpikeAt(i) /\ Returned(i, "qc_sudden")) => Returned(i + 1, "qc_sudden")
    /\ (call.op = "apply_quality_control" /\ call.return_clean_only /\ AsRead) =>
          \A i \in 1..Len(df.rows) :
              (/\ SpikeAt(i)
               /\ detect_sudden_changes(df, variable_name, "valor", "tiempo", None)
                      .df.rows[i]["qc_sudden"]) =>
                  \A k \in 1..Len(result.df.rows) :
                      /\ Returned(k, "tiempo") # df.rows[i]["tiempo"]
                      /\ Returned(k, "tiempo") # df.rows[i + 1]["tiempo"]

\* A clean-only call on 10, 36, 10 every hour (temperatura): only the first
\* reading is returned.
C26_Witness ==
    /\ call.op = "apply_quality_control" /\ call.return_clean_only
    /\ AsRead
    /\ Kind = K_temperatura
    /\ Len(df.rows) = 3
    /\ SpikeAt(2)
    /\ df.rows[2]["valor"] # df.rows[1]["valor"]
    /\ result.status = "ok"
    /\ Len(result.df.rows) = 1

-----------------------------------------------------------------------------
(* The defaults of the combinator.                                         *)

\* C27: apply_all_checks runs the stuck-sensor check with min_repeats 4 and
\* the zeros check with min_zeros 10 whatever the kind; in a precipitacion
\* series every reading of a run of 10 or more zeros fails (qc_passed is
\* false) although it is flagged neither impossible nor extreme.
C27_DefaultsForEveryKind ==
    call.op = "apply_all_checks" =>
        /\ result.status = "ok"
        /\ Col(result.df, "qc_stuck")
               = Col(detect_stuck_sensor(df, "valor", 4, Rat(1, 1000)).df, "qc_stuck")
        /\ Col(result.df, "qc_zeros")
               = Col(detect_consecutive_zeros(df, "valor", 10).df, "qc_zeros")
        /\ Kind = K_precipitacion =>
              \A ab \in MaximalZeroRuns :
                  ab[2] - ab[1] + 1 >= 10 =>
                      \A i \in ab[1]..ab[2] :
                          /\ ~Returned(i, "qc_passed")
                          /\ Returned(i, "qc_zeros")
                          /\ ~Returned(i, "qc_impossible")
                          /\ ~Returned(i, "qc_extreme")

\* A precipitacion series with a run of at least 10 zeros whose first
\* reading fails on account of qc_zeros alone.
C27_Witness ==
    /\ call.op = "apply_all_checks"
    /\ result.status = "ok"
    /\ Kind = K_precipitacion
    /\ \E ab \in MaximalZeroRuns :
          /\ ab[2] - ab[1] + 1 >= 10
          /\ ~Returned(ab[1], "qc_passed")
          /\ \A c \in FlagColumns : Returned(ab[1], c) <=> c = "qc_zeros"

-----------------------------------------------------------------------------
(* The clean-only filter applied to its own output.                        *)

\* The caller's series is the clean output of an earlier call.
IsCleanOutput == "qc_passed" \in df.cols

\* C28 as stated: the clean-only filter applied to its own clean output
\* removes no further reading.
C28_Original ==
    (call.op = "apply_quality_control" /\ call.return_clean_only /\ IsCleanOutput) =>
        /\ result.status = "ok"
        /\ Readings(result.df) = Readings(df)

\* C28 amended: on its own clean output the filter finds no reading
\* impossible or extreme, so every reading it removes is one that the
\* neighbours it now has make stuck, sudden or part of a run of zeros; the
\* readings returned are among those given, in the same order.
C28_OnlyNeighbourFlagsOnCleanOutput ==
    /\ (call.op = "apply_quality_control" /\ ~call.return_clean_only /\ IsCleanOutput) =>
          /\ result.status = "ok"
          /\ SameReadings
          /\ \A i \in 1..Len(df.rows) :
                /\ ~Returned(i, "qc_impossible")
                /\ ~Returned(i, "qc_extreme")
                /\ ~Returned(i, "qc_passed") =>
                      (Returned(i, "qc_stuck") \/ Returned(i, "qc_sudden")
                       \/ Returned(i, "qc_zeros"))
    /\ (call.op = "apply_quality_control" /\ call.return_clean_only /\ IsCleanOutput) =>
          /\ result.status = "ok"
          /\ Readings(result.df) = PassedOfInput
          /\ Len(result.df.rows) <= Len(df.rows)

\* The filter removes a reading from its own clean output: 10, 45, 36 every
\* hour lose 45 first, and then 36 for its jump from 10.
C28_Witness ==
    /\ call.op = "apply_quality_control" /\ call.return_clean_only
    /\ IsCleanOutput
    /\ result.status = "ok"
    /\ Len(df.rows) = 2
    /\ Len(result.df.rows) = 1

-----------------------------------------------------------------------------
(* What the cache file holds after a sequence of saves.                    *)

\* The timestamps saved so far, and the batch that saved a timestamp first.
SavedTimes ==
    UNION {{saved[k][3][i]["tiempo"] : i \in 1..Len(saved[k][3])} : k \in 1..Len(saved)}
FirstSaved(x) ==
    LET k == CHOOSE k \in 1..Len(saved) :
                 /\ \E i \in 1..Len(saved[k][3]) : saved[k][3][i]["tiempo"] = x
                 /\ \A j \in 1..(k - 1) :
                       \A i \in 1..Len(saved[j][3]) : saved[j][3][i]["tiempo"] # x
        i == CHOOSE i \in 1..Len(saved[k][3]) : saved[k][3][i]["tiempo"] = x
    IN saved[k][3][i]

\* C29: after any sequence of save_data calls with batches of distinct
\* timestamps (saved holds the batches of the calls since the manager was
\* made or the cache last cleared; a call between clear_cache and the next
\* CacheManager() finds no data directory, writes nothing and is no part of
\* such a sequence) the cache file holds every timestamp ever saved exactly
\* once, with the value it was first saved with; saving an empty batch
\* leaves the file as it was.
C29_CacheHoldsEverySavedTimestampOnce ==
    /\ [](/\ saved = <<>> <=> cache_file \in {Missing, NoDirectory}
          /\ saved # <<>> =>
                /\ {cache_file.rows[i]["tiempo"] : i \in 1..Len(cache_file.rows)} = SavedTimes
                /\ Len(cache_file.rows) = Cardinality(SavedTimes)
                /\ \A i \in 1..Len(cache_file.rows) :
                      cache_file.rows[i] = FirstSaved(cache_file.rows[i]["tiempo"]))
    /\ [][(call'.op = "CacheManager.save_data" /\ Empty(df')) =>
              cache_file' = cache_file]_vars

\* Two saves of overlapping days with different values: the file has the
\* days of both and, where they overlap, the value of the first.
C29_Witness ==
    /\ Len(saved) = 2
    /\ \E i \in 1..Len(saved[1][3]), j \in 1..Len(saved[2][3]) :
          /\ saved[1][3][i]["tiempo"] = saved[2][3][j]["tiempo"]
          /\ saved[1][3][i]["valor"] # saved[2][3][j]["valor"]
    /\ Len(cache_file.rows) > Len(saved[1][3])
    /\ call.op = "CacheManager.save_data"

\* The call at hand was for raw data, returned readings and left them in
\* the cache.
RawSeriesSaved ==
    /\ call.op = "DataDownloader.get_data"
    /\ IsRaw(call.aggregation)
    /\ result.status = "ok"
    /\ ~Empty(result.df)
    /\ cache_file # Missing

\* C30: once get_data without aggregation has downloaded a non-empty series
\* for start and end and saved it, the same call with use_cache=True is
\* served from the cache: it returns the readings as it is entered and no
\* request is sent.
C30_SecondCallServedFromCache ==
    [][(/\ RawSeriesSaved
        /\ call'.op = "DataDownloader.get_data"
        /\ call'.nth = call.nth + 1
        /\ call'.start_date = call.start_date
        /\ call'.end_date = call.end_date
        /\ call'.aggregation = call.aggregation
        /\ call'.use_cache) =>
            /\ result'.status = "ok"
            /\ ~Empty(result'.df)
            /\ http' = http]_vars

====
